---- MODULE Spec2Model ----
(***************************************************************************)
(* Model of the autonomous coding agent: the structured-output extractor   *)
(* (src/src/utils.ts) and the change iteration controller "develop" in its *)
(* two revisions (Agent.develop and CodeDeveloperImpl.develop in           *)
(* src/src/googleAI.ts), with the code manager and the test runner         *)
(* (src/src/testRunner.ts).                                                *)
(*                                                                         *)
(* Oracle text is a sequence of tokens.  A token is one of the JSON        *)
(* punctuation characters, a JSON string literal, a number literal, a      *)
(* code-fence marker, a language tag directly following a fence, or a      *)
(* piece of prose.                                                         *)
(***************************************************************************)
EXTENDS Integers, Sequences, FiniteSets, TLC

\* ------------------------------------------------------------------------
\* Text and tokens
\* ------------------------------------------------------------------------

NULL == "null"

\* the three-backquote code fence marker
FENCE == "<fence>"

\* language tags removed together with the opening fence (utils.ts 20-44)
KnownLangs == {"json", "typescript", "ts", "javascript", "js", "python", "py", "shell", "sh"}

\* JSON string literals that occur in the modelled oracle texts
StringTokens ==
    {"a.txt", "b.txt", "z.txt", "c1", "c2", "no more files.txt", "title", "plan", "T", "s1"}

NumberTokens == {"1", "2"}

\* String.prototype.toLowerCase on one token
ToLowerCase(tok) ==
    CASE tok = "No more files" -> "no more files"
      [] tok = "NO MORE FILES" -> "no more files"
      [] tok = "No More Files.txt" -> "no more files.txt"
      [] tok = "Question:" -> "question:"
      [] tok = "QUESTION:" -> "question:"
      [] OTHER -> tok

\* the lower-cased tokens that have "no more files" as a substring
HasSentinelText == {"no more files", "no more files.txt"}

\* the phrase looked for without lower-casing the response
IncludesNoMoreFilesExact(text) ==
    \E i \in 1..Len(text) : text[i] \in HasSentinelText

\* fileListResponse.toLowerCase().includes("no more files")
IncludesNoMoreFiles(text) ==
    \E i \in 1..Len(text) : ToLowerCase(text[i]) \in HasSentinelText

\* the oracle answer null, as a text of its own
NullText == <<"<null>">>

\* only null taken as no answer
IsFalsyNullOnly(text) == text = NullText

\* !response : null and the empty string are both falsy
IsFalsy(text) == text = NullText \/ text = <<>>

\* ------------------------------------------------------------------------
\* JSON values
\* ------------------------------------------------------------------------

JNull == [t |-> "null", s |-> "", keys |-> <<>>, items |-> <<>>]
JStr(tok) == [t |-> "str", s |-> tok, keys |-> <<>>, items |-> <<>>]
JNum(tok) == [t |-> "num", s |-> tok, keys |-> <<>>, items |-> <<>>]
JArr(elems) == [t |-> "arr", s |-> "", keys |-> <<>>, items |-> elems]
JObj(ks, vs) == [t |-> "obj", s |-> "", keys |-> ks, items |-> vs]

\* any container taken for an array
IsArrayLoose(v) == v.t \in {"arr", "obj"}

\* Array.isArray(data)
IsArray(v) == v.t = "arr"

ParseFail == [ok |-> FALSE, v |-> JNull, next |-> 0]
ParseOk(val, n) == [ok |-> TRUE, v |-> val, next |-> n]

IndexOfKey(ks, k) ==
    IF \E i \in 1..Len(ks) : ks[i] = k
    THEN CHOOSE i \in 1..Len(ks) : ks[i] = k
    ELSE 0

\* a repeated member name keeps its first position and takes the last value
PutMember(obj, k, val) ==
    LET i == IndexOfKey(obj.keys, k) IN
    IF i = 0 THEN JObj(Append(obj.keys, k), Append(obj.items, val))
    ELSE JObj(obj.keys, [obj.items EXCEPT ![i] = val])

RECURSIVE JsonValue(_, _)
RECURSIVE JsonElements(_, _, _)
RECURSIVE JsonMembers(_, _, _)

\* one JSON value starting at token i
JsonValue(text, i) ==
    IF i > Len(text) THEN ParseFail
    ELSE IF text[i] \in StringTokens THEN ParseOk(JStr(text[i]), i + 1)
    ELSE IF text[i] \in NumberTokens THEN ParseOk(JNum(text[i]), i + 1)
    ELSE IF text[i] = "[" THEN
        IF i + 1 <= Len(text) /\ text[i + 1] = "]"
        THEN ParseOk(JArr(<<>>), i + 2)
        ELSE JsonElements(text, i + 1, <<>>)
    ELSE IF text[i] = "{" THEN
        IF i + 1 <= Len(text) /\ text[i + 1] = "}"
        THEN ParseOk(JObj(<<>>, <<>>), i + 2)
        ELSE JsonMembers(text, i + 1, JObj(<<>>, <<>>))
    ELSE ParseFail

\* value { "," value } "]"
JsonElements(text, i, acc) ==
    LET r == JsonValue(text, i) IN
    IF ~r.ok \/ r.next > Len(text) THEN ParseFail
    ELSE IF text[r.next] = "]" THEN ParseOk(JArr(Append(acc, r.v)), r.next + 1)
    ELSE IF text[r.next] = "," THEN JsonElements(text, r.next + 1, Append(acc, r.v))
    ELSE ParseFail

\* string ":" value { "," string ":" value } "}"
JsonMembers(text, i, acc) ==
    IF i + 1 > Len(text) \/ text[i] \notin StringTokens \/ text[i + 1] # ":" THEN ParseFail
    ELSE LET r == JsonValue(text, i + 2) IN
         IF ~r.ok \/ r.next > Len(text) THEN ParseFail
         ELSE IF text[r.next] = "}" THEN ParseOk(PutMember(acc, text[i], r.v), r.next + 1)
         ELSE IF text[r.next] = "," THEN JsonMembers(text, r.next + 1, PutMember(acc, text[i], r.v))
         ELSE ParseFail

\* a value at the start of the text accepted, whatever follows it
JsonParsePrefix(text) == JsonValue(text, 1)

\* JSON.parse : the whole text must be one value
JsonParse(text) ==
    LET r == JsonValue(text, 1) IN
    IF r.ok /\ r.next = Len(text) + 1 THEN r ELSE ParseFail

\* ------------------------------------------------------------------------
\* utils.ts
\* ------------------------------------------------------------------------

RECURSIVE StripLangFences(_)
\* the replace passes for fence+language : a fence directly followed by a known tag
StripLangFences(text) ==
    IF text = <<>> THEN <<>>
    ELSE IF Len(text) >= 2 /\ text[1] = FENCE /\ text[2] \in KnownLangs
         THEN StripLangFences(SubSeq(text, 3, Len(text)))
         ELSE <<text[1]>> \o StripLangFences(Tail(text))

\* the final replace pass for the remaining bare fences
StripFences(text) == SelectSeq(text, LAMBDA tok : tok # FENCE)

sanitizeJsonString(jsonString) == StripFences(StripLangFences(jsonString))

\* String.prototype.indexOf, 1-based, 0 when absent
IndexOf(text, ch) ==
    IF \E i \in 1..Len(text) : text[i] = ch
    THEN CHOOSE i \in 1..Len(text) : text[i] = ch /\ \A j \in 1..(i - 1) : text[j] # ch
    ELSE 0

\* String.prototype.lastIndexOf, 1-based, 0 when absent
LastIndexOf(text, ch) ==
    IF \E i \in 1..Len(text) : text[i] = ch
    THEN CHOOSE i \in 1..Len(text) : text[i] = ch /\ \A j \in (i + 1)..Len(text) : text[j] # ch
    ELSE 0

NoJsonFound == "No valid JSON object or array found."
JsonSyntaxError == "Unexpected token in JSON"

\* a failure that gives no reason
ExtractFailureSilent(msg) == [success |-> FALSE, data |-> JNull, error |-> ""]

\* { success: false, error }
ExtractFailure(msg) == [success |-> FALSE, data |-> JNull, error |-> msg]

\* the array span looked for before the object span
CandidateSpanArrayFirst(sanitizedInput) ==
    LET start == IndexOf(sanitizedInput, "{")
        end == LastIndexOf(sanitizedInput, "}")
        startArray == IndexOf(sanitizedInput, "[")
        endArray == LastIndexOf(sanitizedInput, "]")
    IN  IF startArray > 0 /\ endArray > startArray
        THEN SubSeq(sanitizedInput, startArray, endArray)
        ELSE IF start > 0 /\ end > start THEN SubSeq(sanitizedInput, start, end)
             ELSE <<>>

\* the candidate span of extractJson, <<>> when none
CandidateSpan(sanitizedInput) ==
    LET start == IndexOf(sanitizedInput, "{")
        end == LastIndexOf(sanitizedInput, "}")
        startArray == IndexOf(sanitizedInput, "[")
        endArray == LastIndexOf(sanitizedInput, "]")
    IN  IF start > 0 /\ end > start THEN SubSeq(sanitizedInput, start, end)
        ELSE IF startArray > 0 /\ endArray > startArray
             THEN SubSeq(sanitizedInput, startArray, endArray)
             ELSE <<>>

extractJson(input) ==
    LET jsonString == CandidateSpan(sanitizeJsonString(input)) IN
    IF jsonString = <<>> THEN ExtractFailure(NoJsonFound)
    ELSE LET json == JsonParse(jsonString) IN
         IF json.ok THEN [success |-> TRUE, data |-> json.v, error |-> ""]
         ELSE ExtractFailure(JsonSyntaxError)

\* ------------------------------------------------------------------------
\* Maps (JavaScript objects used as dictionaries)
\* ------------------------------------------------------------------------

EmptyMap == [x \in {} |-> ""]

\* obj[k] = val
MapPut(map, k, val) ==
    [x \in (DOMAIN map) \cup {k} |-> IF x = k THEN val ELSE map[x]]

\* the newly read contents dropped
MapMergeKeepOld(a, b) == a

\* { ...a, ...b }
MapMerge(a, b) ==
    [x \in (DOMAIN a) \cup (DOMAIN b) |-> IF x \in DOMAIN b THEN b[x] ELSE a[x]]

SeqRange(sq) == {sq[i] : i \in 1..Len(sq)}

RECURSIVE Dedup(_, _)
\* [...new Set(sq)] : first occurrences, in order
Dedup(sq, seen) ==
    IF sq = <<>> THEN <<>>
    ELSE IF sq[1] \in seen THEN Dedup(Tail(sq), seen)
         ELSE <<sq[1]>> \o Dedup(Tail(sq), seen \cup {sq[1]})

\* ------------------------------------------------------------------------
\* The environment: oracle answers, repository, test command
\* ------------------------------------------------------------------------

\* answers of the oracle to a file request
FileListResponses ==
    { <<"No more files">>,
      <<"[", "a.txt", "]">>,
      <<"[", "b.txt", ",", "z.txt", "]">>,
      <<"I", "need", "files">>,
      <<"{", "a.txt", ":", "c1", "}">>,
      <<"NO MORE FILES", "[", "b.txt", "]">>,
      <<"[", "No More Files.txt", "]">> }

\* answers of the oracle to a change request
CodeResponses ==
    { <<"{", "a.txt", ":", "c1", "}">>,
      <<FENCE, "json", "{", "a.txt", ":", "c2", ",", "b.txt", ":", "c2", "}", FENCE>>,
      <<"[", "c1", "]">>,
      <<"{", "a.txt", "c1", "}">> }

\* answers of the oracle to a clarification request
ClarifierResponses ==
    { <<"Question:", "q1">>,
      <<"Sure", "QUESTION:", "q2">>,
      <<"All", "clear">> }

\* what the user types at the prompt
UserAnswers == { "yes" }

\* answers of the oracle to the plan request
PlanResponses ==
    { <<FENCE, "json", "{", "title", ":", "T", ",", "plan", ":", "[", "s1", "]", "}", FENCE>>,
      <<"[", "s1", "]">>,
      <<"{", "title", ":", "T">>,
      <<"Here", "is", "the", "plan">> }

\* answers of the oracle to a summary request
SummaryResponses == { <<"changed", "a.txt">> }

\* null and the empty text
EmptyResponses == { NullText, <<>> }

NoDescription == <<"No description provided">>
NoTestDetails == <<"Tests failed without details.">>
ReadErrorText == "Error: Could not read file."

\* the files of the repository at the start
InitialRepos ==
    { [p \in {"a.txt"} |-> "old"] }

\* directory order of the paths the model can hold
PathOrder == <<"0", "a.txt", "b.txt">>

\* how the test command can end : exit code, message of the exec error, output
ProcessExits ==
    { [code |-> 0, message |-> "", stdout |-> "passed", stderr |-> ""],
      [code |-> 1, message |-> "Command failed", stdout |-> "1 failing", stderr |-> "assert"] }

Story == "story"
RepoPath == "/repo"

\* the requirements develop can be called with
\* requirements : null
NoRequirements ==
    [present |-> FALSE, description |-> "", repositoryPath |-> NULL,
     additionalDetails |-> EmptyMap]

\* the requirements develop can be called with
RequirementsInputs ==
    { NoRequirements,
      [present |-> TRUE, description |-> "req", repositoryPath |-> NULL,
       additionalDetails |-> EmptyMap],
      [present |-> TRUE, description |-> "req", repositoryPath |-> RepoPath,
       additionalDetails |-> EmptyMap] }

\* ------------------------------------------------------------------------
\* testRunner.ts
\* ------------------------------------------------------------------------

NonEmpty(sq) == SelectSeq(sq, LAMBDA x : x # "")

\* the outcome decided by what the command wrote to its error output
runTestsByOutput(exit) ==
    IF exit.stderr = ""
    THEN [passed |-> TRUE, details |-> NonEmpty(<<exit.stdout>>)]
    ELSE [passed |-> FALSE, details |-> NonEmpty(<<exit.message, exit.stdout, exit.stderr>>)]

\* execAsync resolves on exit status 0 and rejects otherwise; the catch branch
\* joins error.message, error.stdout and error.stderr
runTests(exit) ==
    IF exit.code = 0
    THEN [passed |-> TRUE, details |-> NonEmpty(<<exit.stdout>>)]
    ELSE [passed |-> FALSE, details |-> NonEmpty(<<exit.message, exit.stdout, exit.stderr>>)]

getProjectFiles(repoFiles) == SelectSeq(PathOrder, LAMBDA p : p \in DOMAIN repoFiles)

\* ------------------------------------------------------------------------
\* Prompts : the parts a prompt is framed with
\* ------------------------------------------------------------------------

Prompt(kind, projectFiles, alreadyRequested, contents, story, description, number, userRequirements, details) ==
    [kind |-> kind, projectFiles |-> projectFiles, alreadyRequested |-> alreadyRequested,
     fileContents |-> contents, scrumStory |-> story, iterationDescription |-> description,
     iterationNumber |-> number, userRequirements |-> userRequirements,
     additionalDetails |-> details]

NoPrompt == Prompt("none", <<>>, <<>>, EmptyMap, NULL, <<>>, 0, "", EmptyMap)

\* prompts.clarifyRequirementsPrompt
clarifyRequirementsPrompt(req) ==
    Prompt("clarify", <<>>, <<>>, EmptyMap, NULL, <<>>, 0, req.description,
           req.additionalDetails)

\* Agent.generateFileRequestPromptForPlanning /
\* PromptGeneratorImpl.generateFileRequestPromptForPlanning
generateFileRequestPromptForPlanning(rv, projectFiles, alreadyRequested, contents, req) ==
    Prompt("planFiles", projectFiles, alreadyRequested,
           IF rv = "Impl" THEN contents ELSE EmptyMap, NULL, <<>>, 0,
           req.description, req.additionalDetails)

\* prompts.createScrumStoryPrompt
createScrumStoryPrompt(req, contents) ==
    Prompt("story", <<>>, <<>>, contents, NULL, <<>>, 0, req.description,
           req.additionalDetails)

\* Agent.generateFileRequestPrompt / PromptGeneratorImpl.generateFileRequestPrompt
generateFileRequestPrompt(rv, projectFiles, alreadyRequested, contents, story) ==
    Prompt("files", projectFiles, alreadyRequested,
           IF rv = "Impl" THEN contents ELSE EmptyMap, story, <<>>, 0, "", EmptyMap)

\* the change request written without the plan
generateCodePromptWithoutStory(rv, story, contents, iterationDescription, iterationNumber) ==
    Prompt("code", <<>>, <<>>, contents, NULL, iterationDescription,
           IF rv = "Impl" THEN iterationNumber ELSE 0, "", EmptyMap)

\* Agent.generateCodePromptFromScrumStory / PromptGeneratorImpl.generateCodePromptFromScrumStory
generateCodePromptFromScrumStory(rv, story, contents, iterationDescription, iterationNumber) ==
    Prompt("code", <<>>, <<>>, contents, story, iterationDescription,
           IF rv = "Impl" THEN iterationNumber ELSE 0, "", EmptyMap)

\* generateIterationDescriptionPrompt : the ChangeSet, serialized
generateIterationDescriptionPrompt(changes) ==
    Prompt("describe", <<>>, <<>>, changes, NULL, <<>>, 0, "", EmptyMap)

\* ------------------------------------------------------------------------
\* File system and code manager
\* ------------------------------------------------------------------------

\* fs.readFile inside getFileContentsMap : content, or the placeholder on failure
ReadFile(repoFiles, p) ==
    IF p \in DOMAIN repoFiles THEN repoFiles[p] ELSE ReadErrorText

\* an unreadable file left out of the map
getFileContentsMapOmitting(filePaths, repoFiles) ==
    [p \in SeqRange(filePaths) \cap DOMAIN repoFiles |-> repoFiles[p]]

\* contents[filePath] = content, or the placeholder in the catch branch
getFileContentsMap(filePaths, repoFiles) ==
    [p \in SeqRange(filePaths) |-> ReadFile(repoFiles, p)]

IndexName(i) == CASE i = 1 -> "0" [] i = 2 -> "1" [] OTHER -> "n"

\* Object.entries(files) : <<path, content value>> in order
Entries(changes) ==
    IF changes.t = "obj" THEN [i \in 1..Len(changes.items) |-> <<changes.keys[i], changes.items[i]>>]
    ELSE IF changes.t = "arr" THEN [i \in 1..Len(changes.items) |-> <<IndexName(i), changes.items[i]>>]
    ELSE <<>>

\* the ChangeSet as a map path -> content (JSON.stringify(files) of the prompt)
ChangeMap(changes) ==
    LET e == Entries(changes) IN
    [p \in {e[i][1] : i \in 1..Len(e)} |->
        LET i == CHOOSE j \in 1..Len(e) : e[j][1] = p IN e[i][2].s]

\* fs.writeFile accepts a string only
Writable(entry) == entry[2].t = "str"

\* the writes of one call, in order : the first n succeed, and the one after
\* them, if there is one, fails and ends the call
WriteLog(entries, n) ==
    [i \in 1..(IF n < Len(entries) THEN n + 1 ELSE n) |->
        [path |-> entries[i][1], ok |-> i <= n]]

RECURSIVE WriteEntries(_, _, _)
\* the repository after the first n entries are written
WriteEntries(repoFiles, entries, n) ==
    IF n = 0 THEN repoFiles
    ELSE MapPut(WriteEntries(repoFiles, entries, n - 1), entries[n][1], entries[n][2].s)

\* a failed write takes back the entries written before it
createOrModifyProjectWithRollback(repoFiles, entries, n) ==
    IF n < Len(entries) THEN repoFiles ELSE WriteEntries(repoFiles, entries, n)

\* createOrModifyProject when its first n writes succeed : there is no
\* statement that undoes a write
createOrModifyProject(repoFiles, entries, n) == WriteEntries(repoFiles, entries, n)

\* the number of leading entries that can be written at all
MaxWritable(entries) ==
    IF \A i \in 1..Len(entries) : Writable(entries[i]) THEN Len(entries)
    ELSE (CHOOSE i \in 1..Len(entries) :
             ~Writable(entries[i]) /\ \A j \in 1..(i - 1) : Writable(entries[j])) - 1

RECURSIVE CountFetches(_, _)
\* one fs.readFile for every element of filePaths, in order
CountFetches(count, filePaths) ==
    IF filePaths = <<>> THEN count
    ELSE CountFetches(MapPut(count, filePaths[1],
                             IF filePaths[1] \in DOMAIN count THEN count[filePaths[1]] + 1 ELSE 1),
                      Tail(filePaths))

\* ------------------------------------------------------------------------
\* develop : the change iteration controller
\* ------------------------------------------------------------------------

\* const maxIterations, Agent.develop
AgentMaxIterations == 10
\* const maxIterations, CodeDeveloperImpl.develop
ImplMaxIterations == 3

maxIterations(rv) == IF rv = "Agent" THEN AgentMaxIterations ELSE ImplMaxIterations

\* rounds of one discovery loop the model follows
MaxRounds == 3

VARIABLES
    rev,                          \* which revision runs : "Agent" or "Impl"
    pc,                           \* position of the running call
    scrumStory,                   \* the plan createActionPlan returned
    planningFileContents,         \* the context of planning : identifier -> content
    requirements,                 \* the requirements develop works with
    repo,                         \* files of the repository : path -> content
    projectFiles,                 \* catalog listed at the start of develop
    iterationCount,
    neededFiles,                  \* identifiers named so far in this iteration
    rounds,                       \* oracle calls of the running discovery loop
    currentFileContents,          \* the context : identifier -> content
    currentIterationDescription,
    files,                        \* the ChangeSet parsed in this iteration
    lastLog,                      \* kind of the last warning or error record logged
    error,                        \* message of the error develop threw, "" if none
    lastPrompt,                   \* the last prompt sent to the oracle
    lastResponse,                 \* the last answer received from the oracle
    codeCalls,                    \* change requests sent to the oracle
    applied,                      \* ChangeSets written completely
    testsFailed,                  \* failing test outcomes
    testsPassed,                  \* passing test outcomes
    prevDescription,              \* description held when the iteration began
    iterationSteps,               \* describe / apply steps done in this iteration
    successExit,                  \* the loop was left through break
    fetchCount,                   \* reads of each identifier since the discovery loop began
    input,                        \* the text handed to extractJson
    value,                        \* the JSON value the text was written from
    result,                       \* what extractJson returned
    processExit,                  \* how the test command handed to runTests ended
    testOutcome,                  \* what runTests returned
    call,                         \* the operation called and its arguments
    userPrompts,                  \* questions put to the user in the running call
    gitOps,                       \* version-control operations commitChanges issued
    head,                         \* the files of the last commit
    inFlight,                     \* external operations issued and not yet settled
    stmt,                         \* the next statement of the running async function
    writeOps,                     \* the writes of the last createOrModifyProject call
    agent                         \* the fields of the Agent object of the later revision

vars == <<rev, pc, scrumStory, planningFileContents, requirements, repo, projectFiles, iterationCount, neededFiles, rounds,
          currentFileContents, currentIterationDescription, files, lastLog, error,
          lastPrompt, lastResponse, codeCalls, applied, testsFailed, testsPassed,
          prevDescription, iterationSteps, successExit, fetchCount, input, value, result,
          processExit, testOutcome, call, userPrompts, gitOps, head, inFlight, stmt,
          writeOps, agent>>

pureVars == <<input, value, result, processExit, testOutcome>>
asyncVars == <<inFlight, stmt>>
applyVars == <<writeOps>>
agentVars == <<agent>>

\* the Agent object after construction : its requirements field refers to no
\* object, and no operation of it has returned
NewAgent == [requirements |-> FALSE, completed |-> {}]
commitVars == <<gitOps, head>>

\* no call made yet
NoCall ==
    [op |-> "none", description |-> "", repositoryPath |-> NULL, noQuestions |-> FALSE,
     accepted |-> FALSE, keepChanges |-> FALSE, scrumStory |-> JNull]

\* the plan the command line hands to develop
PlanInput == JObj(<<"title", "plan">>, <<JStr("T"), JArr(<<JStr("s1")>>)>>)

\* JSON.stringify(scrumStory) as the prompts hold it
StoryText(plan) ==
    IF plan.t = "obj" THEN Story
    ELSE IF plan.t = "arr" THEN "story-list"
    ELSE NULL

\* a call of an operation that takes no argument of its own
Call(op) == [NoCall EXCEPT !.op = op]

\* the check passes as long as a requirements object exists
RequirementsMissingAbsentOnly(req) == ~req.present

\* !requirements || !requirements.repositoryPath
RequirementsMissing(req) == ~req.present \/ req.repositoryPath = NULL

\* no test command handed to runTests on its own
NoExit == [code |-> 0, message |-> "", stdout |-> "", stderr |-> ""]
NoTestResult == [passed |-> FALSE, details |-> <<"<no call>">>]

\* no call of extractJson made on its own
NoResult == [success |-> FALSE, data |-> JNull, error |-> "<no call>"]

Init ==
    /\ rev \in {"Agent", "Impl"}
    /\ pc = "idle"
    /\ scrumStory = JNull
    /\ planningFileContents = EmptyMap
    /\ requirements = NoRequirements
    /\ repo \in InitialRepos
    /\ projectFiles = <<>>
    /\ iterationCount = 0
    /\ neededFiles = <<>>
    /\ rounds = 0
    /\ currentFileContents = EmptyMap
    /\ currentIterationDescription = <<>>
    /\ files = JNull
    /\ lastLog = ""
    /\ error = ""
    /\ lastPrompt = NoPrompt
    /\ lastResponse = NullText
    /\ codeCalls = 0
    /\ applied = 0
    /\ testsFailed = 0
    /\ testsPassed = 0
    /\ prevDescription = <<>>
    /\ iterationSteps = <<>>
    /\ successExit = FALSE
    /\ fetchCount = EmptyMap
    /\ input = <<>>
    /\ value = JNull
    /\ result = NoResult
    /\ processExit = NoExit
    /\ testOutcome = NoTestResult
    /\ call = NoCall
    /\ userPrompts = 0
    /\ gitOps = <<>>
    /\ writeOps = <<>>
    /\ agent = NewAgent
    /\ head = repo
    /\ inFlight = {}
    /\ stmt = 0

\* the loop test off by one
LoopContinuesInclusive(count, max) == count <= max

\* while (iterationCount < maxIterations)
LoopContinues(count, max) == count < max

\* the iteration counter left as it is
CountIterationNot(count) == count

\* iterationCount++
CountIteration(count) == count + 1

\* a passing outcome that does not leave the loop
NeverBreak(testResult) == FALSE

\* if (testResult.passed) break
ShouldBreak(testResult) == testResult.passed

\* the files written first, the summary asked afterwards
NextStageWriteFirst(stage, rv) ==
    CASE stage = "request" -> "apply"
      [] stage = "apply" -> "describe"
      [] stage = "describe" -> IF rv = "Agent" THEN "test" ELSE "exit"

\* the tests run after the files are written, in both revisions
NextStageTested(stage, rv) ==
    CASE stage = "request" -> "describe"
      [] stage = "describe" -> "apply"
      [] stage = "apply" -> "test"

\* the order of the steps of an iteration after the change request parsed
NextStage(stage, rv) ==
    CASE stage = "request" -> "describe"
      [] stage = "describe" -> "apply"
      [] stage = "apply" -> IF rv = "Agent" THEN "test" ELSE "exit"

\* every identifier of the catalog asked for again, whatever the context holds
filesToRequestAll(catalog, contents) == catalog

\* projectFiles.filter(file => !Object.keys(this.currentFileContents).includes(file))
filesToRequest(catalog, contents) == SelectSeq(catalog, LAMBDA f : f \notin DOMAIN contents)

Throw(msg) ==
    /\ pc' = "error"
    /\ error' = msg

\* entry of develop : the requirements check and the catalog listing
Develop ==
    /\ pc = "idle"
    /\ \E req \in RequirementsInputs :
        /\ requirements' = req
        /\ IF RequirementsMissing(req)
           THEN /\ Throw(IF rev = "Agent"
                          THEN "Requirements (including repository path) not collected."
                          ELSE "Requirements (including repository path) not provided.")
                /\ UNCHANGED <<projectFiles, iterationCount>>
           ELSE /\ pc' = "loop"
                /\ iterationCount' = 0
                /\ projectFiles' = getProjectFiles(repo)
                /\ UNCHANGED error
    /\ call' = [Call("develop") EXCEPT !.scrumStory = PlanInput]
    /\ UNCHANGED <<rev, pureVars, asyncVars, commitVars, applyVars, agentVars, userPrompts, fetchCount, scrumStory, planningFileContents, repo, neededFiles, rounds, currentFileContents,
                   currentIterationDescription, files, lastLog, lastPrompt, lastResponse,
                   codeCalls, applied, testsFailed, testsPassed, prevDescription,
                   iterationSteps, successExit>>

\* Agent.develop of the later revision, called after createActionPlan : the
\* stored plan and the stored requirements are handed to CodeDeveloperImpl.develop
AgentDevelop ==
    /\ pc = "planned"
    /\ rev = "Impl"
    /\ call' = [Call("develop") EXCEPT !.scrumStory = scrumStory]
    /\ IF scrumStory = JNull \/ ~requirements.present
       THEN /\ Throw("Scrum story and requirements must be available to start development.")
            /\ UNCHANGED <<projectFiles, iterationCount>>
       ELSE IF RequirementsMissing(requirements)
       THEN /\ Throw("Requirements (including repository path) not provided.")
            /\ UNCHANGED <<projectFiles, iterationCount>>
       ELSE /\ pc' = "loop"
            /\ iterationCount' = 0
            /\ projectFiles' = getProjectFiles(repo)
            /\ UNCHANGED error
    /\ UNCHANGED <<rev, pureVars, asyncVars, commitVars, applyVars, agentVars, userPrompts, fetchCount, scrumStory,
                   planningFileContents, requirements, repo, neededFiles, rounds,
                   currentFileContents, currentIterationDescription, files, lastLog,
                   lastPrompt, lastResponse, codeCalls, applied, testsFailed, testsPassed,
                   prevDescription, iterationSteps, successExit>>

\* the loop test holds : the head of one iteration
IterationStart ==
    /\ pc = "loop"
    /\ LoopContinues(iterationCount, maxIterations(rev))
    /\ iterationCount' = CountIteration(iterationCount)
    /\ prevDescription' = currentIterationDescription
    /\ currentIterationDescription' = <<>>
    /\ neededFiles' = <<>>
    /\ rounds' = 0
    /\ iterationSteps' = <<>>
    /\ fetchCount' = EmptyMap
    /\ writeOps' = <<>>
    /\ IF rev = "Impl"
       THEN /\ UNCHANGED currentFileContents
            /\ pc' = IF filesToRequest(projectFiles, currentFileContents) # <<>>
                     THEN "discover" ELSE "fetch"
       ELSE /\ currentFileContents' = EmptyMap
            /\ pc' = "discover"
    /\ UNCHANGED <<rev, pureVars, asyncVars, commitVars, agentVars, call, userPrompts, scrumStory, planningFileContents, requirements, repo, projectFiles, files, lastLog, error, lastPrompt,
                   lastResponse, codeCalls, applied, testsFailed, testsPassed, successExit>>

\* the loop is over : the check of the iteration count after it
LoopExit ==
    /\ \/ pc = "exit"
       \/ pc = "loop" /\ ~LoopContinues(iterationCount, maxIterations(rev))
    /\ pc' = "done"
    /\ lastLog' = IF iterationCount = maxIterations(rev) THEN "maxReached" ELSE lastLog
    /\ UNCHANGED <<rev, pureVars, asyncVars, commitVars, applyVars, agentVars, call, userPrompts, fetchCount, scrumStory, planningFileContents, requirements, repo, projectFiles, iterationCount, neededFiles, rounds,
                   currentFileContents, currentIterationDescription, files, error,
                   lastPrompt, lastResponse, codeCalls, applied, testsFailed, testsPassed,
                   prevDescription, iterationSteps, successExit>>

\* the discovery loop given up after two rounds
continueGettingFilesCapped(fileListResponse, round) ==
    ~IncludesNoMoreFiles(fileListResponse) /\ round < 2

\* the list extracted first : the phrase ends the loop only when the answer
\* names no identifiers
continueGettingFilesUnlessList(fileListResponse, round) ==
    \/ ~IncludesNoMoreFiles(fileListResponse)
    \/ (extractJson(fileListResponse).success /\ IsArray(extractJson(fileListResponse).data))

\* while (continueGettingFiles) : the flag is cleared by the phrase alone,
\* whatever the number of the round
continueGettingFiles(fileListResponse, round) ==
    ~IncludesNoMoreFiles(fileListResponse)

\* JSON values of an array as identifiers
Names(arr) == [i \in 1..Len(arr.items) |-> arr.items[i].s]

\* one round of the discovery loop of develop
DiscoverRound ==
    /\ pc = "discover"
    /\ rounds < MaxRounds
    /\ \E fileListResponse \in FileListResponses \cup EmptyResponses :
        /\ lastPrompt' = generateFileRequestPrompt(rev, projectFiles, neededFiles,
                                                   currentFileContents,
                                                   StoryText(IF rev = "Agent" THEN scrumStory
                                                             ELSE call.scrumStory))
        /\ lastResponse' = fileListResponse
        /\ rounds' = rounds + 1
        /\ IF IsFalsy(fileListResponse)
           THEN /\ Throw("Failed to get file list from Google Gemini.")
                /\ UNCHANGED <<neededFiles, lastLog>>
           ELSE IF ~continueGettingFiles(fileListResponse, rounds + 1)
           THEN /\ pc' = "fetch"
                /\ UNCHANGED <<neededFiles, lastLog, error>>
           ELSE LET jsonResult == extractJson(fileListResponse) IN
                /\ pc' = "discover"
                /\ IF jsonResult.success /\ IsArray(jsonResult.data)
                   THEN /\ neededFiles' = Dedup(neededFiles \o Names(jsonResult.data), {})
                        /\ UNCHANGED lastLog
                   ELSE /\ lastLog' = "invalidFileList"
                        /\ UNCHANGED neededFiles
                /\ UNCHANGED error
    /\ UNCHANGED <<rev, pureVars, asyncVars, commitVars, applyVars, agentVars, call, userPrompts, fetchCount, scrumStory, planningFileContents, requirements, repo, projectFiles, iterationCount,
                   currentFileContents, currentIterationDescription, files, codeCalls,
                   applied, testsFailed, testsPassed, prevDescription, iterationSteps,
                   successExit>>

\* getFileContentsMap(neededFiles) after the discovery loop
FetchFiles ==
    /\ pc = "fetch"
    /\ LET newFileContents == getFileContentsMap(neededFiles, repo) IN
       currentFileContents' = IF rev = "Impl"
                              THEN MapMerge(currentFileContents, newFileContents)
                              ELSE newFileContents
    /\ fetchCount' = CountFetches(fetchCount, neededFiles)
    /\ pc' = "request"
    /\ UNCHANGED <<rev, pureVars, asyncVars, commitVars, applyVars, agentVars, call, userPrompts, scrumStory, planningFileContents, requirements, repo, projectFiles, iterationCount, neededFiles, rounds,
                   currentIterationDescription, files, lastLog, error, lastPrompt, lastResponse,
                   codeCalls, applied, testsFailed, testsPassed, prevDescription,
                   iterationSteps, successExit>>

\* the change request and the extraction of its answer
RequestChange ==
    /\ pc = "request"
    /\ \E codeResponse \in CodeResponses \cup EmptyResponses :
        /\ lastPrompt' = generateCodePromptFromScrumStory(rev, StoryText(call.scrumStory), currentFileContents,
                                            currentIterationDescription, iterationCount)
        /\ lastResponse' = codeResponse
        /\ codeCalls' = codeCalls + 1
        /\ IF IsFalsy(codeResponse)
           THEN /\ Throw("Failed to generate code with Google Gemini.")
                /\ UNCHANGED <<files, lastLog>>
           ELSE LET jsonResult == extractJson(codeResponse) IN
                IF jsonResult.success
                THEN /\ files' = jsonResult.data
                     /\ pc' = NextStage("request", rev)
                     /\ UNCHANGED <<lastLog, error>>
                ELSE /\ lastLog' = "invalidJson"
                     /\ pc' = "loop"
                     /\ UNCHANGED <<files, error>>
    /\ UNCHANGED <<rev, pureVars, asyncVars, commitVars, applyVars, agentVars, call, userPrompts, fetchCount, scrumStory, planningFileContents, requirements, repo, projectFiles, iterationCount, neededFiles, rounds,
                   currentFileContents, currentIterationDescription, applied, testsFailed,
                   testsPassed, prevDescription, iterationSteps, successExit>>

\* after a step of the iteration : on to the next one, or out of the loop
Advance(stage) ==
    /\ pc' = NextStage(stage, rev)
    /\ successExit' = (successExit \/ NextStage(stage, rev) = "exit")

\* the answer of the oracle taken as the description, whatever it is
DescriptionOfRaw(response) == response

\* response ? response : "No description provided"
DescriptionOf(response) == IF IsFalsy(response) THEN NoDescription ELSE response

\* generateIterationDescription(files)
DescribeIteration ==
    /\ pc = "describe"
    /\ \E response \in SummaryResponses \cup EmptyResponses :
        /\ lastPrompt' = generateIterationDescriptionPrompt(ChangeMap(files))
        /\ lastResponse' = response
        /\ currentIterationDescription' = DescriptionOf(response)
    /\ iterationSteps' = Append(iterationSteps, "describe")
    /\ Advance("describe")
    /\ UNCHANGED <<rev, pureVars, asyncVars, commitVars, applyVars, agentVars, call, userPrompts, fetchCount, scrumStory, planningFileContents, requirements, repo, projectFiles, iterationCount, neededFiles, rounds,
                   currentFileContents, files, lastLog, error, codeCalls, applied, testsFailed,
                   testsPassed, prevDescription>>

\* createOrModifyProject(repositoryPath, files)
ApplyChanges ==
    /\ pc = "apply"
    /\ LET entries == Entries(files) IN
       \E n \in 0..MaxWritable(entries), failed \in BOOLEAN :
        /\ n < Len(entries) => failed
        /\ failed => (n < Len(entries) \/ (rev = "Impl" /\ n = 0))
        /\ repo' = createOrModifyProject(repo, entries, n)
        /\ writeOps' = WriteLog(entries, n)
        /\ iterationSteps' = Append(iterationSteps, "apply")
        /\ IF failed
           THEN /\ Throw("Error creating or modifying files")
                /\ UNCHANGED <<applied, successExit>>
           ELSE /\ applied' = applied + 1
                /\ Advance("apply")
                /\ UNCHANGED error
    /\ UNCHANGED <<rev, pureVars, asyncVars, commitVars, agentVars, call, userPrompts, fetchCount, scrumStory, planningFileContents, requirements, projectFiles, iterationCount, neededFiles, rounds,
                   currentFileContents, currentIterationDescription, files, lastLog,
                   lastPrompt, lastResponse, codeCalls, testsFailed, testsPassed,
                   prevDescription>>

\* runTests and the decision on its outcome
RunTests ==
    /\ pc = "test"
    /\ \E exit \in ProcessExits :
        LET testResult == runTests(exit) IN
        IF testResult.passed
        THEN /\ testsPassed' = testsPassed + 1
             /\ IF ShouldBreak(testResult)
                THEN pc' = "exit" /\ successExit' = TRUE
                ELSE pc' = "loop" /\ UNCHANGED successExit
             /\ UNCHANGED <<requirements, lastLog, testsFailed>>
        ELSE /\ requirements' = [requirements EXCEPT !.additionalDetails =
                    MapPut(@, "testErrors",
                           IF testResult.details # <<>> THEN testResult.details
                           ELSE NoTestDetails)]
             /\ lastLog' = "testsFailed"
             /\ testsFailed' = testsFailed + 1
             /\ pc' = "loop"
             /\ UNCHANGED <<testsPassed, successExit>>
    /\ UNCHANGED <<rev, pureVars, asyncVars, commitVars, applyVars, agentVars, call, userPrompts, fetchCount, scrumStory, planningFileContents, repo, projectFiles, iterationCount, neededFiles, rounds,
                   currentFileContents, currentIterationDescription, files, error,
                   lastPrompt, lastResponse, codeCalls, applied, prevDescription,
                   iterationSteps>>

\* ------------------------------------------------------------------------
\* createActionPlan : discovery for planning and plan synthesis
\* ------------------------------------------------------------------------

\* the message without the diagnostic of the extractor
PlanErrorMessageBare(diagnostic) == "Failed to parse Scrum story from Gemini."

\* "Failed to parse Scrum story from Gemini: " followed by jsonResult.error
PlanErrorMessage(diagnostic) ==
    IF diagnostic = NoJsonFound
    THEN "Failed to parse Scrum story from Gemini: No valid JSON object or array found."
    ELSE "Failed to parse Scrum story from Gemini: Unexpected token in JSON"

\* entry of createActionPlan : the requirements check and the catalog
CreateActionPlan ==
    /\ pc = "idle"
    /\ \E req \in RequirementsInputs :
        /\ requirements' = req
        /\ IF RequirementsMissing(req)
           THEN /\ Throw(IF rev = "Agent"
                          THEN "Requirements (including repository path) must be collected before creating the action plan."
                          ELSE "Requirements (including repository path) must be provided to create the action plan.")
                /\ UNCHANGED projectFiles
           ELSE /\ pc' = "planDiscover"
                /\ projectFiles' = getProjectFiles(repo)
                /\ UNCHANGED error
    /\ call' = Call("createActionPlan")
    /\ UNCHANGED <<rev, pureVars, asyncVars, commitVars, applyVars, agentVars, userPrompts, fetchCount, scrumStory, planningFileContents, repo, iterationCount, neededFiles,
                   rounds, currentFileContents, currentIterationDescription, files, lastLog,
                   lastPrompt, lastResponse, codeCalls, applied, testsFailed, testsPassed,
                   prevDescription, iterationSteps, successExit>>

\* one round of the discovery loop of createActionPlan
PlanDiscoverRound ==
    /\ pc = "planDiscover"
    /\ rounds < MaxRounds
    /\ \E fileListResponse \in FileListResponses \cup EmptyResponses :
        /\ lastPrompt' = generateFileRequestPromptForPlanning(rev, projectFiles, neededFiles,
                                                  planningFileContents, requirements)
        /\ lastResponse' = fileListResponse
        /\ rounds' = rounds + 1
        /\ IF IsFalsy(fileListResponse)
           THEN /\ Throw("Failed to get file list from Google Gemini.")
                /\ UNCHANGED <<neededFiles, planningFileContents, lastLog, fetchCount>>
           ELSE IF ~continueGettingFiles(fileListResponse, rounds + 1)
           THEN /\ pc' = IF rev = "Agent" THEN "planFetch" ELSE "planRequest"
                /\ UNCHANGED <<neededFiles, planningFileContents, lastLog, error, fetchCount>>
           ELSE LET jsonResult == extractJson(fileListResponse) IN
                /\ pc' = "planDiscover"
                /\ IF jsonResult.success /\ IsArray(jsonResult.data)
                   THEN /\ neededFiles' = Dedup(neededFiles \o Names(jsonResult.data), {})
                        /\ planningFileContents' =
                              IF rev = "Impl"
                              THEN MapMerge(planningFileContents,
                                       getFileContentsMap(Names(jsonResult.data), repo))
                              ELSE planningFileContents
                        /\ fetchCount' =
                              IF rev = "Impl"
                              THEN CountFetches(fetchCount, Names(jsonResult.data))
                              ELSE fetchCount
                        /\ UNCHANGED lastLog
                   ELSE /\ lastLog' = "invalidFileList"
                        /\ UNCHANGED <<neededFiles, planningFileContents, fetchCount>>
                /\ UNCHANGED error
    /\ UNCHANGED <<rev, pureVars, asyncVars, commitVars, applyVars, agentVars, call, userPrompts, scrumStory, requirements, repo, projectFiles, iterationCount,
                   currentFileContents, currentIterationDescription, files, codeCalls,
                   applied, testsFailed, testsPassed, prevDescription, iterationSteps,
                   successExit>>

\* Agent.createActionPlan : getFileContentsMap(neededFiles) after the loop
PlanFetch ==
    /\ pc = "planFetch"
    /\ planningFileContents' = getFileContentsMap(neededFiles, repo)
    /\ fetchCount' = CountFetches(fetchCount, neededFiles)
    /\ pc' = "planRequest"
    /\ UNCHANGED <<rev, pureVars, asyncVars, commitVars, applyVars, agentVars, call, userPrompts, scrumStory, requirements, repo, projectFiles, iterationCount,
                   neededFiles, rounds, currentFileContents, currentIterationDescription,
                   files, lastLog, error, lastPrompt, lastResponse, codeCalls, applied,
                   testsFailed, testsPassed, prevDescription, iterationSteps, successExit>>

\* the plan request and the extraction of the plan
PlanRequest ==
    /\ pc = "planRequest"
    /\ \E storyText \in PlanResponses \cup EmptyResponses :
        /\ lastPrompt' = createScrumStoryPrompt(requirements, planningFileContents)
        /\ lastResponse' = storyText
        /\ IF IsFalsy(storyText)
           THEN /\ Throw("Failed to create an action plan with Google Gemini.")
                /\ UNCHANGED <<scrumStory, lastLog>>
           ELSE LET jsonResult == extractJson(storyText) IN
                IF jsonResult.success
                THEN /\ scrumStory' = jsonResult.data
                     /\ pc' = "planned"
                     /\ UNCHANGED <<lastLog, error>>
                ELSE /\ lastLog' = "planParseError"
                     /\ Throw(PlanErrorMessage(jsonResult.error))
                     /\ UNCHANGED scrumStory
    /\ UNCHANGED <<rev, pureVars, asyncVars, commitVars, applyVars, agentVars, call, userPrompts, fetchCount, planningFileContents, requirements, repo, projectFiles,
                   iterationCount, neededFiles, rounds, currentFileContents,
                   currentIterationDescription, files, codeCalls, applied, testsFailed,
                   testsPassed, prevDescription, iterationSteps, successExit>>

\* ------------------------------------------------------------------------
\* collectRequirements : the clarifier
\* ------------------------------------------------------------------------

\* the marker looked for as it is written, without lower-casing the answer
hasFurtherQuestionsExact(details) ==
    \E i \in 1..Len(details) : details[i] = "question:"

\* details.toLowerCase().includes("question:")
hasFurtherQuestions(details) ==
    \E i \in 1..Len(details) : ToLowerCase(details[i]) = "question:"

\* details.match(/Question:(.*)/i) : what follows the first marker, trimmed;
\* null when the pattern does not match
questionMatch(details) ==
    IF \E k \in 1..Len(details) : ToLowerCase(details[k]) = "question:"
    THEN LET i == CHOOSE k \in 1..Len(details) :
                      /\ ToLowerCase(details[k]) = "question:"
                      /\ \A j \in 1..(k - 1) : ToLowerCase(details[j]) # "question:"
         IN  IF i < Len(details) THEN details[i + 1] ELSE ""
    ELSE NULL

\* the initial descriptions collectRequirements is called with
Descriptions == { "req", "req2" }

\* every call starts from a new requirements object
UpdatedRequirementsFresh(req, initialDescription, repoPath) ==
    [present |-> TRUE, description |-> initialDescription, repositoryPath |-> repoPath,
     additionalDetails |-> EmptyMap]

\* the requirements object is created on the first call and overwritten in
\* its description and repository path on a later one
UpdatedRequirements(req, initialDescription, repoPath) ==
    IF ~req.present
    THEN [present |-> TRUE, description |-> initialDescription,
          repositoryPath |-> repoPath, additionalDetails |-> EmptyMap]
    ELSE [req EXCEPT !.description = initialDescription, !.repositoryPath = repoPath]

\* entry of collectRequirements : the requirements record and the noQuestions flag
CollectRequirements ==
    /\ pc \in {"idle", "collected"}
    /\ \E initialDescription \in Descriptions, repoPath \in {NULL, RepoPath},
          noQuestions \in BOOLEAN :
        /\ requirements' = UpdatedRequirements(requirements, initialDescription, repoPath)
        /\ call' = [NoCall EXCEPT !.op = "collectRequirements",
                                  !.description = initialDescription,
                                  !.repositoryPath = repoPath,
                                  !.noQuestions = noQuestions]
        /\ pc' = IF noQuestions THEN "collected" ELSE "clarify"
    /\ rounds' = 0
    /\ userPrompts' = 0
    /\ UNCHANGED <<rev, pureVars, asyncVars, commitVars, applyVars, agentVars, fetchCount, scrumStory, planningFileContents,
                   repo, projectFiles, iterationCount, neededFiles, currentFileContents,
                   currentIterationDescription, files, lastLog, error, lastPrompt,
                   lastResponse, codeCalls, applied, testsFailed, testsPassed,
                   prevDescription, iterationSteps, successExit>>

\* one round of the clarifier loop
ClarifyRound ==
    /\ pc = "clarify"
    /\ rounds < MaxRounds
    /\ \E details \in ClarifierResponses \cup EmptyResponses, answer \in UserAnswers :
        /\ lastPrompt' = clarifyRequirementsPrompt(requirements)
        /\ lastResponse' = details
        /\ rounds' = rounds + 1
        /\ IF IsFalsy(details)
           THEN /\ Throw("Failed to get additional details from Google Gemini.")
                /\ UNCHANGED <<requirements, userPrompts>>
           ELSE IF ~hasFurtherQuestions(details)
           THEN /\ pc' = "collected"
                /\ UNCHANGED <<requirements, error, userPrompts>>
           ELSE IF questionMatch(details) = NULL
           THEN /\ pc' = "clarify"
                /\ UNCHANGED <<requirements, error, userPrompts>>
           ELSE /\ requirements' = [requirements EXCEPT !.additionalDetails =
                                        MapPut(@, questionMatch(details), answer)]
                /\ userPrompts' = userPrompts + 1
                /\ pc' = "clarify"
                /\ UNCHANGED error
    /\ UNCHANGED <<rev, pureVars, asyncVars, commitVars, applyVars, agentVars, call, fetchCount, scrumStory, planningFileContents,
                   repo, projectFiles, iterationCount, neededFiles, currentFileContents,
                   currentIterationDescription, files, lastLog, codeCalls, applied,
                   testsFailed, testsPassed, prevDescription, iterationSteps, successExit>>

\* generateContent throws : no answer from the service
OracleFailure ==
    /\ pc \in {"discover", "request", "describe", "planDiscover", "planRequest", "clarify"}
    /\ pc \in {"discover", "planDiscover", "clarify"} => rounds < MaxRounds
    /\ Throw("The Google AI Studio response is empty or undefined.")
    /\ UNCHANGED <<rev, pureVars, asyncVars, commitVars, applyVars, agentVars, call, userPrompts, fetchCount, scrumStory, planningFileContents, requirements, repo, projectFiles, iterationCount, neededFiles, rounds,
                   currentFileContents, currentIterationDescription, files, lastLog,
                   lastPrompt, lastResponse, codeCalls, applied, testsFailed, testsPassed,
                   prevDescription, iterationSteps, successExit>>

Next ==
    \/ Develop
    \/ AgentDevelop
    \/ IterationStart
    \/ LoopExit
    \/ DiscoverRound
    \/ FetchFiles
    \/ RequestChange
    \/ DescribeIteration
    \/ ApplyChanges
    \/ RunTests
    \/ OracleFailure
    \/ CreateActionPlan
    \/ PlanDiscoverRound
    \/ PlanFetch
    \/ PlanRequest
    \/ CollectRequirements
    \/ ClarifyRound

Spec == Init /\ [][Next]_vars

\* ------------------------------------------------------------------------
\* extractJson on its own : texts written from JSON values, and other texts
\* ------------------------------------------------------------------------

\* JSON objects and arrays a text is written from
ExtractValues ==
    { JObj(<<>>, <<>>),
      JObj(<<"a.txt">>, <<JStr("c1")>>),
      JObj(<<"title", "plan">>, <<JStr("T"), JArr(<<JStr("s1")>>)>>),
      JObj(<<"a.txt">>, <<JObj(<<"b.txt">>, <<JStr("c2")>>)>>),
      JArr(<<>>),
      JArr(<<JStr("a.txt")>>),
      JArr(<<JNum("1"), JNum("2")>>),
      JArr(<<JObj(<<"a.txt">>, <<JStr("c1")>>)>>) }

RECURSIVE Serialize(_)
RECURSIVE SerializeItems(_, _, _)

\* the members or elements from position i on, separated by commas
SerializeItems(v, i, withKeys) ==
    IF i > Len(v.items) THEN <<>>
    ELSE (IF i > 1 THEN <<",">> ELSE <<>>)
         \o (IF withKeys THEN <<v.keys[i], ":">> ELSE <<>>)
         \o Serialize(v.items[i])
         \o SerializeItems(v, i + 1, withKeys)

\* JSON.stringify(v), as tokens
Serialize(v) ==
    IF v.t = "obj" THEN <<"{">> \o SerializeItems(v, 1, TRUE) \o <<"}">>
    ELSE IF v.t = "arr" THEN <<"[">> \o SerializeItems(v, 1, FALSE) \o <<"]">>
    ELSE <<v.s>>

\* the openings of a fenced block : none, bare, or with a language tag
FenceOpenings == { <<>>, <<FENCE>>, <<FENCE, "json">>, <<FENCE, "ts">> }

\* prose in front of the block and after it
ProseBefore == { <<>>, <<"Here", "it", "is">> }
ProseAfter == { <<>>, <<"Done">>, <<"see", "[", "1", "]">> }

\* the serialization of v in a fenced block, between prose
Wrapped(v, opening, before, after) ==
    before \o opening \o Serialize(v) \o (IF opening = <<>> THEN <<>> ELSE <<FENCE>>) \o after

\* texts that were not written from a JSON value
OtherTexts ==
    { <<>>,
      <<"no", "json", "here">>,
      <<"{", "a.txt">>,
      <<"}", "{">>,
      <<"]", "[">>,
      <<"{", "a.txt", "c1", "}">>,
      <<"{", "a.txt", ":", "c1", ",", "}">>,
      <<"[", "a.txt", ",", "]">>,
      <<FENCE, "json", "oops", FENCE>>,
      <<"noise", "[", "1", ",", "2", "]", "noise", "{", "a.txt", ":", "c1", "}", "noise">>,
      <<"{", "oops", "}", "[", "a.txt", "]">>,
      <<"[", "a.txt", "]", "{">>,
      <<"}", "[", "a.txt", "]">>,
      <<"{", "a.txt", ":", "c1", "}", "and", "}">>,
      <<"[", "1", "]", ",", "2", "]">> }

InitExtract ==
    /\ \/ \E v \in ExtractValues, opening \in FenceOpenings,
             before \in ProseBefore, after \in ProseAfter :
             /\ value = v
             /\ input = Wrapped(v, opening, before, after)
       \/ /\ value = JNull
          /\ input \in OtherTexts
    /\ result = NoResult
    /\ rev = "Impl"
    /\ pc = "extract"
    /\ scrumStory = JNull
    /\ planningFileContents = EmptyMap
    /\ requirements = NoRequirements
    /\ repo = EmptyMap
    /\ projectFiles = <<>>
    /\ iterationCount = 0
    /\ neededFiles = <<>>
    /\ rounds = 0
    /\ currentFileContents = EmptyMap
    /\ currentIterationDescription = <<>>
    /\ files = JNull
    /\ lastLog = ""
    /\ error = ""
    /\ lastPrompt = NoPrompt
    /\ lastResponse = NullText
    /\ codeCalls = 0
    /\ applied = 0
    /\ testsFailed = 0
    /\ testsPassed = 0
    /\ prevDescription = <<>>
    /\ iterationSteps = <<>>
    /\ successExit = FALSE
    /\ fetchCount = EmptyMap
    /\ processExit = NoExit
    /\ testOutcome = NoTestResult
    /\ call = NoCall
    /\ userPrompts = 0
    /\ gitOps = <<>>
    /\ writeOps = <<>>
    /\ agent = NewAgent
    /\ head = EmptyMap
    /\ inFlight = {}
    /\ stmt = 0

\* the call extractJson(input)
CallExtractJson ==
    /\ pc = "extract"
    /\ result' = extractJson(input)
    /\ pc' = "extracted"
    /\ UNCHANGED <<rev, input, value, processExit, testOutcome, asyncVars, commitVars, applyVars, agentVars, call,
                   userPrompts, fetchCount, scrumStory, planningFileContents,
                   requirements, repo, projectFiles, iterationCount, neededFiles, rounds,
                   currentFileContents, currentIterationDescription, files, lastLog, error,
                   lastPrompt, lastResponse, codeCalls, applied, testsFailed, testsPassed,
                   prevDescription, iterationSteps, successExit>>

NextExtract == CallExtractJson

SpecExtract == InitExtract /\ [][NextExtract]_vars

\* ------------------------------------------------------------------------
\* commitChanges : the decision on the changes develop left in the working tree
\* ------------------------------------------------------------------------

\* the fields of the session that the operations below leave alone
sessionVars ==
    <<scrumStory, planningFileContents, requirements, projectFiles, iterationCount,
      neededFiles, rounds, currentFileContents, currentIterationDescription, files,
      lastLog, lastPrompt, lastResponse, codeCalls, applied, testsFailed, testsPassed,
      prevDescription, iterationSteps, successExit, fetchCount, userPrompts>>

\* the fields of a session in which no oracle call has been made
InitSession ==
    /\ scrumStory = JNull
    /\ planningFileContents = EmptyMap
    /\ projectFiles = <<>>
    /\ iterationCount = 0
    /\ neededFiles = <<>>
    /\ rounds = 0
    /\ currentFileContents = EmptyMap
    /\ currentIterationDescription = <<>>
    /\ files = JNull
    /\ lastLog = ""
    /\ lastPrompt = NoPrompt
    /\ lastResponse = NullText
    /\ codeCalls = 0
    /\ applied = 0
    /\ testsFailed = 0
    /\ testsPassed = 0
    /\ prevDescription = <<>>
    /\ iterationSteps = <<>>
    /\ successExit = FALSE
    /\ fetchCount = EmptyMap
    /\ userPrompts = 0

\* the paths of the repository the commit decision is made on
CommitPaths == { "a.txt", "b.txt" }

\* the last commit : a.txt and b.txt as committed, each present or not
Commits == UNION { [paths -> {"old"}] : paths \in SUBSET CommitPaths }

\* the working trees develop can leave over a commit : it creates and
\* overwrites files and deletes none
WorkingTrees(commit) ==
    { tree \in UNION { [paths -> {"old", "new"}] : paths \in SUBSET CommitPaths } :
          /\ DOMAIN commit \subseteq DOMAIN tree
          /\ \A p \in DOMAIN tree \ DOMAIN commit : tree[p] = "new" }

\* the version-control operations of a call, in the order they are issued
\* when every accepted call is followed by a reset
GitPlanResetAfterCommit(options) ==
    IF options.accepted
    THEN IF options.keepChanges THEN <<"add", "commit">> ELSE <<"add", "commit", "reset">>
    ELSE IF ~options.keepChanges THEN <<"reset">>
    ELSE <<>>

\* the version-control operations of a call, in the order they are issued
GitPlan(options) ==
    IF options.accepted THEN <<"add", "commit">>
    ELSE IF ~options.keepChanges THEN <<"reset">>
    ELSE <<>>

\* git add ./* and git commit : the working tree becomes the last commit
\* git reset --hard HEAD : tracked files get their committed content back,
\* files the last commit does not know stay where they are
GitEffect(op, tree, commit) ==
    IF op = "commit" THEN [tree |-> tree, commit |-> tree]
    ELSE IF op = "reset"
    THEN [tree |-> [p \in DOMAIN commit \cup DOMAIN tree |->
                        IF p \in DOMAIN commit THEN commit[p] ELSE tree[p]],
          commit |-> commit]
    ELSE [tree |-> tree, commit |-> commit]

RECURSIVE GitRun(_, _, _)
\* the operations of a plan carried out one after the other
GitRun(ops, tree, commit) ==
    IF ops = <<>> THEN [tree |-> tree, commit |-> commit]
    ELSE LET after == GitEffect(Head(ops), tree, commit)
         IN  GitRun(Tail(ops), after.tree, after.commit)

\* what a rejected version-control operation leaves in the error
GitFailure == "git: the command failed"

InitCommit ==
    /\ InitSession
    /\ rev \in {"Agent", "Impl"}
    /\ pc = "done"
    /\ error = ""
    /\ requirements = [present |-> TRUE, description |-> "req", repositoryPath |-> RepoPath,
                       additionalDetails |-> EmptyMap]
    /\ head \in Commits
    /\ repo \in WorkingTrees(head)
    /\ gitOps = <<>>
    /\ writeOps = <<>>
    /\ agent = NewAgent
    /\ call = NoCall
    /\ input = <<>>
    /\ value = JNull
    /\ result = NoResult
    /\ processExit = NoExit
    /\ testOutcome = NoTestResult
    /\ inFlight = {}
    /\ stmt = 0

\* commitChanges : every operation is awaited, so the operations before a
\* rejected one have taken effect and the ones after it are never issued
CommitChanges ==
    /\ pc = "done"
    /\ \E accepted \in BOOLEAN, keepChanges \in BOOLEAN :
        LET options == [accepted |-> accepted, keepChanges |-> keepChanges]
            plan == GitPlan(options)
        IN  /\ call' = [NoCall EXCEPT !.op = "commitChanges",
                                      !.repositoryPath = requirements.repositoryPath,
                                      !.accepted = accepted, !.keepChanges = keepChanges]
            /\ \E completed \in 0..Len(plan) :
                LET after == GitRun(SubSeq(plan, 1, completed), repo, head) IN
                /\ gitOps' = SubSeq(plan, 1, completed)
                /\ repo' = after.tree
                /\ head' = after.commit
                /\ IF completed = Len(plan)
                   THEN /\ pc' = "returned"
                        /\ UNCHANGED error
                   ELSE Throw(GitFailure)
    /\ UNCHANGED <<rev, pureVars, asyncVars, applyVars, agentVars, sessionVars>>

NextCommit == CommitChanges

SpecCommit == InitCommit /\ [][NextCommit]_vars

\* ------------------------------------------------------------------------
\* runTests on the ways a test command can end
\* ------------------------------------------------------------------------

\* the errno of a command that could not be started
CannotRun == 0 - 2

\* exit statuses of a command that ran
ExitCodes == { 0, 1, 2, 127 }

\* what a command can have written when it ended
StdoutTexts == { "", "passed", "1 failing", "0 tests" }
StderrTexts == { "", "assert", "warn", "not found" }

\* every way the command can end : an exit status with the output captured,
\* or no process at all
TestCommandExits ==
    { [code |-> c, message |-> IF c = 0 THEN "" ELSE "Command failed",
       stdout |-> out, stderr |-> err] :
          c \in ExitCodes, out \in StdoutTexts, err \in StderrTexts }
    \cup { [code |-> CannotRun, message |-> "spawn ENOENT", stdout |-> "", stderr |-> ""] }

InitRunTests ==
    /\ InitSession
    /\ rev = "Agent"
    /\ pc = "runTests"
    /\ error = ""
    /\ requirements = [present |-> TRUE, description |-> "req", repositoryPath |-> RepoPath,
                       additionalDetails |-> EmptyMap]
    /\ repo \in InitialRepos
    /\ head = repo
    /\ gitOps = <<>>
    /\ writeOps = <<>>
    /\ agent = NewAgent
    /\ call = NoCall
    /\ input = <<>>
    /\ value = JNull
    /\ result = NoResult
    /\ processExit \in TestCommandExits
    /\ testOutcome = NoTestResult
    /\ inFlight = {}
    /\ stmt = 0

\* one call of runTests : the command ends and the result is returned
CallRunTests ==
    /\ pc = "runTests"
    /\ testOutcome' = runTests(processExit)
    /\ call' = [NoCall EXCEPT !.op = "runTests", !.repositoryPath = requirements.repositoryPath]
    /\ pc' = "tested"
    /\ UNCHANGED <<rev, input, value, result, processExit, asyncVars, commitVars, applyVars, agentVars, repo,
                   error, sessionVars>>

NextRunTests == CallRunTests

SpecRunTests == InitRunTests /\ [][NextRunTests]_vars

\* ------------------------------------------------------------------------
\* The external operations of a session and the awaits on them
\* ------------------------------------------------------------------------

\* the files named in one discovery round, and the entries of one ChangeSet
FilesPerRound == 2

\* a call of an external operation that the caller awaits
Awaited(kind) == [kind |-> kind, awaited |-> TRUE]

\* a call of an external operation whose promise the caller goes on without
Detached(kind) == [kind |-> kind, awaited |-> FALSE]

\* the reads all started before the first one is waited for
getFileContentsMapCallsAllAtOnce(n) ==
    [i \in 1..n |-> IF i < n THEN Detached("read") ELSE Awaited("read")]

\* getFileContentsMap : for (const filePath of filePaths) await fs.readFile
getFileContentsMapCalls(n) == [i \in 1..n |-> Awaited("read")]

\* getProjectFiles : await getIgnoreFilter (readFile), await traverse (readdir)
getProjectFilesCalls == <<Awaited("read"), Awaited("list")>>

\* createOrModifyProject : checkIsRepo, then mkdir and writeFile for each entry
createOrModifyProjectCalls(n) ==
    <<Awaited("git")>> \o [i \in 1..(2 * n) |-> Awaited("write")]

\* collectRequirements : a round with a question, then the round that ends the loop
collectRequirementsCalls == <<Awaited("oracle"), Awaited("prompt"), Awaited("oracle")>>

\* createActionPlan : the catalog, a discovery round with its reads, the round
\* of the closing phrase, the plan request
createActionPlanCalls ==
    getProjectFilesCalls \o <<Awaited("oracle")>> \o getFileContentsMapCalls(FilesPerRound)
        \o <<Awaited("oracle"), Awaited("oracle")>>

\* develop : the catalog, a discovery round, the round of the closing phrase,
\* the reads, the change request, the summary request, the writes, and in
\* the earlier revision the test run
developCalls(rv) ==
    getProjectFilesCalls \o <<Awaited("oracle"), Awaited("oracle")>>
        \o getFileContentsMapCalls(FilesPerRound)
        \o <<Awaited("oracle"), Awaited("oracle")>>
        \o createOrModifyProjectCalls(FilesPerRound)
        \o (IF rv = "Agent" THEN <<Awaited("test")>> ELSE <<>>)

\* commitChanges : one awaited version-control call after the other
commitChangesCalls(options) ==
    [i \in 1..Len(GitPlan(options)) |-> Awaited("git")]

\* the operations of a session, as the command line calls them
AsyncCalls ==
    { [NoCall EXCEPT !.op = "collectRequirements", !.description = "req",
                     !.repositoryPath = RepoPath],
      Call("createActionPlan"),
      Call("develop") }
    \cup { [NoCall EXCEPT !.op = "commitChanges", !.repositoryPath = RepoPath,
                          !.accepted = a, !.keepChanges = k] : a \in BOOLEAN, k \in BOOLEAN }

\* the external calls of an operation, in program order
Program(c, rv) ==
    CASE c.op = "collectRequirements" -> collectRequirementsCalls
      [] c.op = "createActionPlan" -> createActionPlanCalls
      [] c.op = "develop" -> developCalls(rv)
      [] c.op = "commitChanges" ->
            commitChangesCalls([accepted |-> c.accepted, keepChanges |-> c.keepChanges])
      [] OTHER -> <<>>

\* the calls whose rejection is caught where they are made
CaughtKinds == { "read", "list", "test" }

\* the caller is suspended in an await
Suspended == \E o \in inFlight : o.awaited

InitAsync ==
    /\ InitSession
    /\ rev \in {"Agent", "Impl"}
    /\ pc = "idle"
    /\ error = ""
    /\ requirements = [present |-> TRUE, description |-> "req", repositoryPath |-> RepoPath,
                       additionalDetails |-> EmptyMap]
    /\ repo \in InitialRepos
    /\ head = repo
    /\ gitOps = <<>>
    /\ writeOps = <<>>
    /\ agent = NewAgent
    /\ call = NoCall
    /\ input = <<>>
    /\ value = JNull
    /\ result = NoResult
    /\ processExit = NoExit
    /\ testOutcome = NoTestResult
    /\ inFlight = {}
    /\ stmt = 0

\* the command line calls an operation of the agent and awaits it
StartOperation ==
    /\ pc \in {"idle", "returned"}
    /\ call' \in AsyncCalls
    /\ stmt' = 1
    /\ pc' = "running"
    /\ UNCHANGED <<rev, pureVars, inFlight, commitVars, applyVars, agentVars, repo, error, sessionVars>>

\* the running function reaches its next external call and makes it
IssueCall ==
    /\ pc = "running"
    /\ ~Suspended
    /\ stmt <= Len(Program(call, rev))
    /\ inFlight' = inFlight \cup
           { [id |-> stmt, kind |-> Program(call, rev)[stmt].kind,
              awaited |-> Program(call, rev)[stmt].awaited] }
    /\ stmt' = stmt + 1
    /\ UNCHANGED <<rev, pureVars, commitVars, applyVars, agentVars, call, repo, pc, error, sessionVars>>

\* an external call completes
SettleCall ==
    /\ \E o \in inFlight : inFlight' = inFlight \ {o}
    /\ UNCHANGED <<rev, pureVars, stmt, commitVars, applyVars, agentVars, call, repo, pc, error, sessionVars>>

\* an external call fails : the rejection of an awaited call ends the
\* operation unless it is caught where the call is made
RejectCall ==
    /\ \E o \in inFlight :
        /\ inFlight' = inFlight \ {o}
        /\ IF o.awaited /\ o.kind \notin CaughtKinds /\ pc = "running"
           THEN Throw("rejected")
           ELSE UNCHANGED <<pc, error>>
    /\ UNCHANGED <<rev, pureVars, stmt, commitVars, applyVars, agentVars, call, repo, sessionVars>>

\* the running function has made its last call and returns
ReturnFromOperation ==
    /\ pc = "running"
    /\ ~Suspended
    /\ stmt > Len(Program(call, rev))
    /\ pc' = "returned"
    /\ UNCHANGED <<rev, pureVars, asyncVars, commitVars, applyVars, agentVars, call, repo, error, sessionVars>>

NextAsync ==
    \/ StartOperation
    \/ IssueCall
    \/ SettleCall
    \/ RejectCall
    \/ ReturnFromOperation

SpecAsync == InitAsync /\ [][NextAsync]_vars

\* ------------------------------------------------------------------------
\* one CodeDeveloperImpl object, develop called on it time after time
\* ------------------------------------------------------------------------

\* the repositories the object works on : one of them has no file
InstanceRepos == InitialRepos \cup { EmptyMap }

\* new CodeDeveloperImpl(...) : currentFileContents = {}
InitInstance ==
    /\ InitSession
    /\ rev = "Impl"
    /\ pc = "idle"
    /\ error = ""
    /\ requirements = NoRequirements
    /\ repo \in InstanceRepos
    /\ head = repo
    /\ gitOps = <<>>
    /\ writeOps = <<>>
    /\ agent = NewAgent
    /\ call = NoCall
    /\ input = <<>>
    /\ value = JNull
    /\ result = NoResult
    /\ processExit = NoExit
    /\ testOutcome = NoTestResult
    /\ inFlight = {}
    /\ stmt = 0

\* a further call of develop on the object, after an earlier one returned or
\* threw : the locals of the call are new, the fields of the object are the
\* ones the earlier call left
DevelopAgain ==
    /\ pc \in {"done", "error"}
    /\ rev = "Impl"
    /\ call.op = "develop"
    /\ \E req \in RequirementsInputs :
        /\ requirements' = req
        /\ IF RequirementsMissing(req)
           THEN /\ Throw("Requirements (including repository path) not provided.")
                /\ UNCHANGED projectFiles
           ELSE /\ pc' = "loop"
                /\ error' = ""
                /\ projectFiles' = getProjectFiles(repo)
    /\ iterationCount' = 0
    /\ neededFiles' = <<>>
    /\ rounds' = 0
    /\ files' = JNull
    /\ lastLog' = ""
    /\ lastPrompt' = NoPrompt
    /\ lastResponse' = NullText
    /\ codeCalls' = 0
    /\ applied' = 0
    /\ prevDescription' = <<>>
    /\ iterationSteps' = <<>>
    /\ successExit' = FALSE
    /\ fetchCount' = EmptyMap
    /\ writeOps' = <<>>
    /\ UNCHANGED <<rev, pureVars, asyncVars, commitVars, agentVars, call, userPrompts, scrumStory,
                   planningFileContents, repo, currentFileContents,
                   currentIterationDescription, testsFailed, testsPassed>>

NextInstance ==
    \/ Develop
    \/ DevelopAgain
    \/ IterationStart
    \/ LoopExit
    \/ DiscoverRound
    \/ FetchFiles
    \/ RequestChange
    \/ DescribeIteration
    \/ ApplyChanges
    \/ OracleFailure

SpecInstance == InitInstance /\ [][NextInstance]_vars

\* ------------------------------------------------------------------------
\* one Agent object of the later revision, its operations called one after
\* another : each operation is one step, and what the oracle, the user and
\* the file system decide inside it is a choice of the step
\* ------------------------------------------------------------------------

\* an operation that has returned, with the repository path it was given
Completed(op, repoPath) == [op |-> op, repositoryPath |-> repoPath]

\* this.requirements of the Agent : null, or the object of the collector
AgentRequirements == IF agent.requirements THEN requirements ELSE NoRequirements

\* the ChangeSet a call of develop may write
StageChanges == JObj(<<"a.txt">>, <<JStr("c1")>>)

InitStages ==
    /\ InitSession
    /\ rev = "Impl"
    /\ pc = "idle"
    /\ error = ""
    /\ requirements = NoRequirements
    /\ repo \in InitialRepos
    /\ head = repo
    /\ gitOps = <<>>
    /\ writeOps = <<>>
    /\ agent = NewAgent
    /\ call = NoCall
    /\ input = <<>>
    /\ value = JNull
    /\ result = NoResult
    /\ processExit = NoExit
    /\ testOutcome = NoTestResult
    /\ inFlight = {}
    /\ stmt = 0

\* Agent.collectRequirements : the collector writes the description and the
\* path into its requirements object at entry and the answers of the user as
\* they come; the field of the Agent is assigned when the collector returns
StageCollectRequirements ==
    /\ \E initialDescription \in Descriptions, repoPath \in {NULL, RepoPath},
          noQuestions \in BOOLEAN, answered \in BOOLEAN, returns \in BOOLEAN :
        /\ noQuestions => (returns /\ ~answered)
        /\ LET entered == UpdatedRequirements(requirements, initialDescription, repoPath) IN
           requirements' = IF answered
                           THEN [entered EXCEPT !.additionalDetails = MapPut(@, "q1", "yes")]
                           ELSE entered
        /\ call' = [NoCall EXCEPT !.op = "collectRequirements",
                                  !.description = initialDescription,
                                  !.repositoryPath = repoPath,
                                  !.noQuestions = noQuestions]
        /\ IF returns
           THEN /\ agent' = [agent EXCEPT !.requirements = TRUE,
                                !.completed = @ \cup {Completed("collectRequirements", repoPath)}]
                /\ pc' = "collected"
                /\ error' = ""
           ELSE /\ Throw("Failed to get additional details from Google Gemini.")
                /\ UNCHANGED agent
    /\ UNCHANGED <<rev, pureVars, asyncVars, applyVars, userPrompts, fetchCount,
                   projectFiles, iterationCount, neededFiles, rounds,
                   currentIterationDescription, files, lastPrompt, lastResponse, codeCalls,
                   applied, testsFailed, testsPassed, prevDescription, iterationSteps,
                   successExit, commitVars, repo, scrumStory, planningFileContents,
                   currentFileContents, lastLog>>

\* Agent.createActionPlan : the check of the stored requirements, and the
\* plan stored when the planner returns one
StageCreateActionPlan ==
    /\ call' = Call("createActionPlan")
    /\ IF RequirementsMissing(AgentRequirements)
       THEN /\ Throw("Requirements (including repository path) must be collected before creating the action plan.")
            /\ UNCHANGED <<agent, scrumStory, planningFileContents>>
       ELSE \E returns \in BOOLEAN, read \in BOOLEAN :
            /\ planningFileContents' =
                  IF read THEN MapMerge(planningFileContents,
                                        getFileContentsMap(<<"a.txt">>, repo))
                  ELSE planningFileContents
            /\ IF returns
               THEN /\ scrumStory' = PlanInput
                    /\ agent' = [agent EXCEPT !.completed =
                                    @ \cup {Completed("createActionPlan", NULL)}]
                    /\ pc' = "planned"
                    /\ error' = ""
               ELSE /\ Throw("Failed to create an action plan with Google Gemini.")
                    /\ UNCHANGED <<agent, scrumStory>>
    /\ UNCHANGED <<rev, pureVars, asyncVars, applyVars, userPrompts, fetchCount,
                   projectFiles, iterationCount, neededFiles, rounds,
                   currentIterationDescription, files, lastPrompt, lastResponse, codeCalls,
                   applied, testsFailed, testsPassed, prevDescription, iterationSteps,
                   successExit, commitVars, repo, requirements, currentFileContents,
                   lastLog>>

\* Agent.develop : the check of the stored plan and requirements, then
\* CodeDeveloperImpl.develop with its own check of the repository path
StageDevelop ==
    /\ call' = [Call("develop") EXCEPT !.scrumStory = scrumStory]
    /\ IF scrumStory = JNull \/ ~agent.requirements
       THEN /\ Throw("Scrum story and requirements must be available to start development.")
            /\ UNCHANGED <<agent, repo, currentFileContents>>
       ELSE IF RequirementsMissing(requirements)
       THEN /\ Throw("Requirements (including repository path) not provided.")
            /\ UNCHANGED <<agent, repo, currentFileContents>>
       ELSE \E returns \in BOOLEAN, read \in BOOLEAN, written \in 0..1 :
            /\ currentFileContents' =
                  IF read THEN MapMerge(currentFileContents,
                                        getFileContentsMap(<<"a.txt">>, repo))
                  ELSE currentFileContents
            /\ repo' = createOrModifyProject(repo, Entries(StageChanges), written)
            /\ IF returns
               THEN /\ agent' = [agent EXCEPT !.completed =
                                    @ \cup {Completed("develop", NULL)}]
                    /\ pc' = "done"
                    /\ error' = ""
               ELSE /\ Throw("Failed to generate code with Google Gemini.")
                    /\ UNCHANGED agent
    /\ UNCHANGED <<rev, pureVars, asyncVars, applyVars, userPrompts, fetchCount,
                   projectFiles, iterationCount, neededFiles, rounds,
                   currentIterationDescription, files, lastPrompt, lastResponse, codeCalls,
                   applied, testsFailed, testsPassed, prevDescription, iterationSteps,
                   successExit, commitVars, requirements, scrumStory,
                   planningFileContents, lastLog>>

\* Agent.reviewAndCommit : a warning and a return when the stored
\* requirements have no repository path, commitChanges otherwise
StageReviewAndCommit ==
    /\ \E accepted \in BOOLEAN, keepChanges \in BOOLEAN :
        LET options == [accepted |-> accepted, keepChanges |-> keepChanges]
            plan == GitPlan(options)
        IN  /\ call' = [NoCall EXCEPT !.op = "reviewAndCommit",
                                      !.repositoryPath = AgentRequirements.repositoryPath,
                                      !.accepted = accepted, !.keepChanges = keepChanges]
            /\ IF AgentRequirements.repositoryPath = NULL
               THEN /\ lastLog' = "notARepository"
                    /\ gitOps' = <<>>
                    /\ pc' = "returned"
                    /\ error' = ""
                    /\ UNCHANGED <<repo, head, agent>>
               ELSE \E completed \in 0..Len(plan) :
                    LET after == GitRun(SubSeq(plan, 1, completed), repo, head) IN
                    /\ gitOps' = SubSeq(plan, 1, completed)
                    /\ repo' = after.tree
                    /\ head' = after.commit
                    /\ UNCHANGED lastLog
                    /\ IF completed = Len(plan)
                       THEN /\ agent' = [agent EXCEPT !.completed =
                                            @ \cup {Completed("reviewAndCommit", NULL)}]
                            /\ pc' = "returned"
                            /\ error' = ""
                       ELSE /\ Throw(GitFailure)
                            /\ UNCHANGED agent
    /\ UNCHANGED <<rev, pureVars, asyncVars, applyVars, userPrompts, fetchCount,
                   projectFiles, iterationCount, neededFiles, rounds,
                   currentIterationDescription, files, lastPrompt, lastResponse, codeCalls,
                   applied, testsFailed, testsPassed, prevDescription, iterationSteps,
                   successExit, requirements, scrumStory, planningFileContents,
                   currentFileContents>>

NextStages ==
    \/ StageCollectRequirements
    \/ StageCreateActionPlan
    \/ StageDevelop
    \/ StageReviewAndCommit

SpecStages == InitStages /\ [][NextStages]_vars

\* ------------------------------------------------------------------------
\* Properties of develop
\* ------------------------------------------------------------------------

Terminated == pc \in {"done", "error"}

StepDone(step) == \E i \in 1..Len(iterationSteps) : iterationSteps[i] = step

StepBefore(first, second) ==
    \E i, j \in 1..Len(iterationSteps) :
        i < j /\ iterationSteps[i] = first /\ iterationSteps[j] = second

\* C1 : when every iteration ended in a failing test outcome, develop has made
\* exactly maxIterations iterations, has logged the max-reached warning and has
\* returned without an error; the same holds whenever the loop was not left
\* through break.
C1_IterationCap ==
    /\ (Terminated /\ iterationCount >= 1 /\ testsFailed = iterationCount) =>
          /\ pc = "done"
          /\ error = ""
          /\ iterationCount = maxIterations(rev)
          /\ lastLog = "maxReached"
    /\ (pc = "done" /\ ~successExit) =>
          (iterationCount = maxIterations(rev) /\ lastLog = "maxReached" /\ error = "")

C1_Witness ==
    /\ pc = "done"
    /\ rev = "Agent"
    /\ testsFailed = AgentMaxIterations
    /\ iterationCount = AgentMaxIterations
    /\ lastLog = "maxReached"

\* C2 : a run whose first applied ChangeSet fails the test and whose second one
\* passes ends with exactly two ChangeSets applied, one passing outcome, no
\* change request beyond the iterations made, and every path of the second
\* ChangeSet holding its content in the repository.
C2_StopsAtFirstPass ==
    (pc = "done" /\ testsFailed = 1 /\ testsPassed >= 1) =>
        /\ testsPassed = 1
        /\ applied = 2
        /\ codeCalls = iterationCount
        /\ \A p \in DOMAIN ChangeMap(files) :
              p \in DOMAIN repo /\ repo[p] = ChangeMap(files)[p]

C2_Witness ==
    /\ pc = "done"
    /\ rev = "Agent"
    /\ iterationCount = 2
    /\ codeCalls = 2
    /\ testsFailed = 1
    /\ testsPassed = 1
    /\ applied = 2
    /\ files.keys = <<"a.txt", "b.txt">>
    /\ repo["b.txt"] = "c2"

\* C3 : the max-reached warning is logged only by a run that did not leave the
\* loop through the success exit.
C3_MaxReachedOnlyWithoutSuccess ==
    lastLog = "maxReached" => ~successExit

\* a change request whose answer is not empty and fails extraction
ParseFailureStep ==
    /\ pc = "request"
    /\ codeCalls' = codeCalls + 1
    /\ ~IsFalsy(lastResponse')
    /\ ~extractJson(lastResponse').success

\* C4 : a change request whose answer fails extraction writes no file and runs
\* no test and still uses up its iteration; the change requests of one develop
\* call never outnumber the iterations begun, which never exceed maxIterations.
C4_ParseFailureConsumesIteration ==
    /\ [](codeCalls <= iterationCount /\ iterationCount <= maxIterations(rev))
    /\ [][ParseFailureStep =>
            /\ repo' = repo
            /\ testsFailed' = testsFailed
            /\ testsPassed' = testsPassed
            /\ applied' = applied
            /\ iterationCount' = iterationCount
            /\ pc' = "loop"]_vars

C4_Witness ==
    /\ pc = "done"
    /\ applied = 0
    /\ testsFailed = 0
    /\ codeCalls = maxIterations(rev)
    /\ repo \in InitialRepos

\* C5 : a value extracted from the change-request answer that is not an object
\* is never applied to the repository.
C5_OnlyObjectsApplied ==
    StepDone("apply") => files.t = "obj"

WriteErrorMessage == "Error creating or modifying files"

\* C6 : develop does not end with an error because an entry of a ChangeSet
\* could not be written.
C6_WriteFailureNotFatal ==
    ~(pc = "error" /\ error = WriteErrorMessage)

\* C7 (as stated) : the summary of a ChangeSet is requested only after its
\* files were written.
C7_SummaryAfterWrites ==
    StepDone("describe") => StepBefore("apply", "describe")

\* C7 (amended) : the files of a ChangeSet are written only after the oracle
\* was asked to summarize that ChangeSet.
C7_WritesAfterSummary ==
    StepDone("apply") => StepBefore("describe", "apply")

C7_Witness ==
    /\ pc = "test"
    /\ iterationSteps = <<"describe", "apply">>
    /\ applied = 1
    /\ repo # EmptyMap

\* C8 : the change request of an iteration that follows one with an applied
\* ChangeSet carries the description derived in that previous iteration.
C8_PromptCarriesPreviousDescription ==
    (lastPrompt.kind = "code" /\ iterationCount > 1 /\ prevDescription # <<>>) =>
        lastPrompt.iterationDescription = prevDescription

\* C9 : once a failing outcome stored its diagnostic detail in the requirements,
\* the file and change requests sent afterwards carry that detail.
C9_TestErrorsInNextPrompts ==
    (lastPrompt.kind \in {"files", "code"}
        /\ "testErrors" \in DOMAIN requirements.additionalDetails) =>
        /\ "testErrors" \in DOMAIN lastPrompt.additionalDetails
        /\ lastPrompt.additionalDetails["testErrors"]
              = requirements.additionalDetails["testErrors"]

\* the texts that hold the phrase "no more files" in some letter case
ContainsPhraseAnyCase(text) ==
    \E i \in 1..Len(text) :
        text[i] \in {"no more files", "No more files", "NO MORE FILES",
                     "no more files.txt", "No More Files.txt"}

\* C10 : a discovery answer holding "no more files" in any letter case ends the
\* loop in that round with the identifiers named and the context as they were;
\* after it no further discovery call is made in the iteration, and with the
\* sentinel on round 1 the context handed on is the one the loop was given.
C10_SentinelEndsDiscovery ==
    /\ [][(rounds' = rounds + 1 /\ ContainsPhraseAnyCase(lastResponse')) =>
            /\ pc = "discover" => pc' = "fetch"
            /\ pc = "planDiscover" => pc' \in {"planFetch", "planRequest"}
            /\ error' = ""
            /\ neededFiles' = neededFiles
            /\ currentFileContents' = currentFileContents
            /\ planningFileContents' = planningFileContents]_vars
    /\ [][(pc \in {"fetch", "planFetch", "planRequest"}) => (rounds' = rounds)]_vars
    /\ [][(pc \in {"fetch", "planFetch"} /\ rounds = 1) =>
            /\ currentFileContents' = currentFileContents
            /\ planningFileContents' = planningFileContents]_vars

C10_Witness ==
    /\ pc = "request"
    /\ rounds = 1
    /\ lastResponse = <<"No more files">>
    /\ neededFiles = <<>>
    /\ lastPrompt.kind = "files"

\* ------------------------------------------------------------------------
\* Properties of the discovery loop
\* ------------------------------------------------------------------------

DiscoveryStages == {"discover", "planDiscover"}

\* the positions right after the discovery phase
DiscoveryOver == pc \in {"request", "planRequest"}

\* the context the running stage works on
Context == IF pc \in {"planDiscover", "planFetch", "planRequest", "planned"}
           THEN planningFileContents ELSE currentFileContents

\* the answer is a JSON array and not the phrase
NamesFiles(text) ==
    /\ text \notin EmptyResponses
    /\ ~ContainsPhraseAnyCase(text)
    /\ extractJson(text).success
    /\ extractJson(text).data.t = "arr"

\* the identifiers an array answer names
NamedFiles(text) ==
    LET arr == extractJson(text).data IN {arr.items[i].s : i \in 1..Len(arr.items)}

\* C11 : names in round 1 and the phrase in round 2 : the discovery ends after
\* two oracle calls with exactly the named identifiers requested, and a context
\* that was empty at the start maps exactly each of them to what reading it
\* returned
C11_DiscoveryAccumulates ==
    /\ [][(/\ pc \in DiscoveryStages
           /\ rounds = 1
           /\ NamesFiles(lastResponse)
           /\ rounds' = 2
           /\ ContainsPhraseAnyCase(lastResponse')) =>
              (/\ SeqRange(neededFiles') = NamedFiles(lastResponse)
               /\ pc' \in {"fetch", "planFetch", "planRequest"})]_vars
    /\ []((/\ DiscoveryOver
           /\ rounds = 2
           /\ (pc = "request" /\ rev = "Impl") => iterationCount = 1) =>
              (/\ DOMAIN Context = SeqRange(neededFiles)
               /\ \A p \in DOMAIN Context :
                     Context[p] = IF p \in DOMAIN repo THEN repo[p] ELSE ReadErrorText))

C11_Witness ==
    /\ rev = "Impl"
    /\ pc = "request"
    /\ iterationCount = 1
    /\ rounds = 2
    /\ lastResponse = <<"No more files">>
    /\ neededFiles = <<"a.txt">>
    /\ currentFileContents = [p \in {"a.txt"} |-> "old"]

\* C12 : since the discovery loop began no identifier has been read more than
\* once
C12_FetchedAtMostOnce == \A p \in DOMAIN fetchCount : fetchCount[p] <= 1

\* the answer is neither empty, nor the phrase, nor a JSON array
NotAFileList(text) ==
    /\ text \notin EmptyResponses
    /\ ~ContainsPhraseAnyCase(text)
    /\ ~(extractJson(text).success /\ extractJson(text).data.t = "arr")

\* C13 : a discovery round whose answer is not the phrase and yields no array
\* writes a warning and changes nothing else : same already-requested list,
\* same context, no read, still in the loop, no error
C13_MalformedRoundIsNoOp ==
    [][(/\ pc \in DiscoveryStages
        /\ rounds' = rounds + 1
        /\ NotAFileList(lastResponse')) =>
           (/\ lastLog' = "invalidFileList"
            /\ neededFiles' = neededFiles
            /\ currentFileContents' = currentFileContents
            /\ planningFileContents' = planningFileContents
            /\ fetchCount' = fetchCount
            /\ pc' = pc
            /\ error' = "")]_vars

C13_Witness ==
    /\ pc = "planDiscover"
    /\ rounds = 2
    /\ lastLog = "invalidFileList"
    /\ lastResponse = <<"{", "a.txt", ":", "c1", "}">>
    /\ neededFiles = <<"a.txt">>
    /\ error = ""

\* C14 : the discovery loop is left only by the phrase or by a thrown error,
\* whatever the number of the round, and its rounds use up nothing of the
\* iteration quota of develop : no iteration is counted and no change request
\* is made while it runs
C14_NoRoundCap ==
    /\ [][(pc \in DiscoveryStages /\ pc' # pc) =>
              (pc' = "error" \/ ContainsPhraseAnyCase(lastResponse'))]_vars
    /\ [][(pc \in DiscoveryStages /\ rounds' = rounds + 1) =>
              (iterationCount' = iterationCount /\ codeCalls' = codeCalls)]_vars

C14_Witness ==
    /\ pc = "discover"
    /\ rounds = MaxRounds
    /\ iterationCount = 1
    /\ codeCalls = 0
    /\ neededFiles = <<>>
    /\ lastLog = "invalidFileList"
    /\ error = ""

\* the positions where the next step depends on the answer of the oracle
OracleStages == {"clarify", "discover", "planDiscover", "planRequest", "request"}

\* C15 : a null or empty answer in a clarifier round, a discovery round, the
\* plan request or the change request throws at once, with no read, write or
\* test run, and nothing is done after the error
C15_EmptyResponseIsFatal ==
    /\ [][(pc \in OracleStages /\ lastResponse' \in EmptyResponses) =>
              (/\ pc' = "error"
               /\ error' # ""
               /\ repo' = repo
               /\ fetchCount' = fetchCount
               /\ currentFileContents' = currentFileContents
               /\ planningFileContents' = planningFileContents
               /\ applied' = applied
               /\ testsFailed' = testsFailed
               /\ testsPassed' = testsPassed)]_vars
    /\ [][pc # "error"]_vars

C15_Witness ==
    /\ pc = "error"
    /\ error = "Failed to generate code with Google Gemini."
    /\ lastResponse = <<>>
    /\ applied = 1
    /\ testsFailed = 1

\* C16 : the keys of the planning context and of the development context are
\* identifiers of the catalog
C16_ContextWithinCatalog ==
    /\ DOMAIN currentFileContents \subseteq SeqRange(projectFiles)
    /\ DOMAIN planningFileContents \subseteq SeqRange(projectFiles)

\* C17 : when the discovery phase is over every identifier requested has an
\* entry in the context, the placeholder text when it could not be read, and
\* no error was raised
C17_EveryRequestedHasEntry ==
    DiscoveryOver =>
        /\ error = ""
        /\ \A p \in SeqRange(neededFiles) :
              /\ p \in DOMAIN Context
              /\ p \notin DOMAIN repo => Context[p] = ReadErrorText

C17_Witness ==
    /\ pc = "request"
    /\ neededFiles = <<"b.txt", "z.txt">>
    /\ "z.txt" \in DOMAIN currentFileContents
    /\ currentFileContents["z.txt"] = ReadErrorText
    /\ error = ""

\* C18 : every key of the context is in the list of identifiers already
\* requested
C18_RequestedCoversContext ==
    /\ DOMAIN currentFileContents \subseteq SeqRange(neededFiles)
    /\ DOMAIN planningFileContents \subseteq SeqRange(neededFiles)

\* ------------------------------------------------------------------------
\* Properties of extractJson
\* ------------------------------------------------------------------------

\* C19 : the text written from a JSON object or array, fenced or not and with
\* prose around it, is extracted with success and gives back that value
C19_ExtractorRoundTrip ==
    (pc = "extracted" /\ value.t \in {"obj", "arr"}) =>
        (result.success /\ result.data = value)

\* an opening character with the closing character somewhere after it
HasSpan(text, open, close) ==
    \E i, j \in 1..Len(text) : i < j /\ text[i] = open /\ text[j] = close

\* C20 : extractJson always returns a result; a text without an object span
\* and without an array span, and a text whose candidate span is not valid
\* JSON, give a failure with a reason that is not empty and with no data
C20_ExtractorFailure ==
    pc = "extracted" =>
        /\ result # NoResult
        /\ result.success => result.error = ""
        /\ (\/ ~HasSpan(input, "{", "}") /\ ~HasSpan(input, "[", "]")
            \/ ~JsonParse(CandidateSpan(sanitizeJsonString(input))).ok) =>
              (~result.success /\ result.error # "" /\ result.data = JNull)

C20_Witness ==
    /\ pc = "extracted"
    /\ input = <<"{", "a.txt", ":", "c1", ",", "}">>
    /\ ~result.success
    /\ result.error = JsonSyntaxError

\* the text without fence markers and the language tags that follow them
Unfenced(text) ==
    LET keep(i) == /\ text[i] # FENCE
                   /\ ~(i > 1 /\ text[i - 1] = FENCE /\ text[i] \in KnownLangs)
        RECURSIVE from(_)
        from(i) == IF i > Len(text) THEN <<>>
                   ELSE (IF keep(i) THEN <<text[i]>> ELSE <<>>) \o from(i + 1)
    IN  from(1)

\* from the first opening character to the last closing character
SpanBetween(text, open, close) ==
    LET i == CHOOSE k \in 1..Len(text) : text[k] = open /\ \A m \in 1..(k - 1) : text[m] # open
        j == CHOOSE k \in 1..Len(text) : text[k] = close /\ \A m \in (k + 1)..Len(text) : text[m] # close
    IN  SubSeq(text, i, j)

\* the result is what parsing this span gives : its value, or a failure
ResultIsParseOf(span) ==
    IF JsonValue(span, 1).ok /\ JsonValue(span, 1).next = Len(span) + 1
    THEN result.success /\ result.data = JsonValue(span, 1).v
    ELSE ~result.success /\ result.data = JNull

\* C21 : with an object span in the text the result is that of the object span
\* alone, a failure when it does not parse; the array span decides only when
\* there is no object span
C21_ObjectSpanFirst ==
    pc = "extracted" =>
        LET text == Unfenced(input) IN
        /\ HasSpan(text, "{", "}") => ResultIsParseOf(SpanBetween(text, "{", "}"))
        /\ (~HasSpan(text, "{", "}") /\ HasSpan(text, "[", "]")) =>
              ResultIsParseOf(SpanBetween(text, "[", "]"))

C21_Witness ==
    /\ pc = "extracted"
    /\ input = <<"{", "oops", "}", "[", "a.txt", "]">>
    /\ ~result.success
    /\ result.error = JsonSyntaxError

\* C22 : a successful result is an object or an array, and it is the value of
\* the complete span from the first opening character of its kind to the last
\* closing character of its kind, read to its last token
C22_WholeSpanParsed ==
    (pc = "extracted" /\ result.success) =>
        /\ result.data.t \in {"obj", "arr"}
        /\ LET span == IF result.data.t = "obj"
                        THEN SpanBetween(Unfenced(input), "{", "}")
                        ELSE SpanBetween(Unfenced(input), "[", "]")
           IN  /\ JsonValue(span, 1).ok
               /\ JsonValue(span, 1).next = Len(span) + 1
               /\ JsonValue(span, 1).v = result.data

C22_Witness ==
    /\ pc = "extracted"
    /\ input = <<"Here", "it", "is", FENCE, "json", "{", "title", ":", "T", ",",
                 "plan", ":", "[", "s1", "]", "}", FENCE, "Done">>
    /\ result.success
    /\ result.data = JObj(<<"title", "plan">>, <<JStr("T"), JArr(<<JStr("s1")>>)>>)

\* ------------------------------------------------------------------------
\* Properties of the clarifier
\* ------------------------------------------------------------------------

\* the marker of a further question, in the letter cases an answer is given in
ContainsQuestionAnyCase(text) ==
    \E i \in 1..Len(text) : text[i] \in {"question:", "Question:", "QUESTION:"}

\* the text after the first marker of the answer
FirstQuestion(text) ==
    LET i == CHOOSE k \in 1..Len(text) :
                 /\ text[k] \in {"question:", "Question:", "QUESTION:"}
                 /\ \A j \in 1..(k - 1) : text[j] \notin {"question:", "Question:", "QUESTION:"}
    IN  IF i < Len(text) THEN text[i + 1] ELSE ""

\* a round of the loop that got an answer from the oracle
AnsweredRound == pc = "clarify" /\ rounds' = rounds + 1 /\ lastResponse' \notin EmptyResponses

\* C23 : a round whose answer holds the marker in any letter case asks the
\* user once about the first question of the answer, records that one pair and
\* stays in the loop; a round whose answer does not hold it ends the loop with
\* nothing recorded; the loop is left in no other way but a thrown error,
\* whatever the number of the round
C23_ClarifierLoop ==
    /\ [][(AnsweredRound /\ ContainsQuestionAnyCase(lastResponse')) =>
              /\ pc' = "clarify"
              /\ userPrompts' = userPrompts + 1
              /\ \E answer \in UserAnswers :
                    requirements' = [requirements EXCEPT !.additionalDetails =
                                        MapPut(@, FirstQuestion(lastResponse'), answer)]]_vars
    /\ [][(AnsweredRound /\ ~ContainsQuestionAnyCase(lastResponse')) =>
              /\ pc' = "collected"
              /\ userPrompts' = userPrompts
              /\ requirements' = requirements]_vars
    /\ [][(pc = "clarify" /\ pc' # "clarify") =>
              \/ pc' = "error"
              \/ pc' = "collected" /\ ~ContainsQuestionAnyCase(lastResponse')]_vars

C23_Witness ==
    /\ pc = "collected"
    /\ rounds = MaxRounds
    /\ userPrompts = MaxRounds - 1
    /\ lastResponse = <<"All", "clear">>
    /\ DOMAIN requirements.additionalDetails = {"q1", "q2"}
    /\ error = ""

\* C24 : a call with the skip flag set asks the oracle nothing and the user
\* nothing, keeps the question-answer mapping it found, and leaves the
\* requirements with the description and the repository path of the call
C24_SkipFlag ==
    [][(call'.op = "collectRequirements" /\ call'.noQuestions /\ pc \in {"idle", "collected"}
            /\ pc' = "collected") =>
          /\ lastPrompt' = lastPrompt
          /\ lastResponse' = lastResponse
          /\ userPrompts' = 0
          /\ requirements'.present
          /\ requirements'.additionalDetails = requirements.additionalDetails
          /\ requirements'.description = call'.description
          /\ requirements'.repositoryPath = call'.repositoryPath
          /\ error' = error]_vars

C24_Witness ==
    /\ pc = "collected"
    /\ call.op = "collectRequirements"
    /\ call.noQuestions
    /\ call.description = "req2"
    /\ userPrompts = 0
    /\ requirements.description = "req2"
    /\ requirements.repositoryPath = RepoPath
    /\ DOMAIN requirements.additionalDetails = {"q1"}
    /\ error = ""

\* ------------------------------------------------------------------------
\* Properties of plan synthesis
\* ------------------------------------------------------------------------

\* the step that puts the plan request to the oracle and gets an answer
PlanAnswered == pc = "planRequest" /\ lastPrompt'.kind = "story"

\* the message ends with the diagnostic
CarriesDiagnostic(message, diagnostic) ==
    \/ /\ diagnostic = "No valid JSON object or array found."
       /\ message = "Failed to parse Scrum story from Gemini: No valid JSON object or array found."
    \/ /\ diagnostic = "Unexpected token in JSON"
       /\ message = "Failed to parse Scrum story from Gemini: Unexpected token in JSON"

\* C25 : an empty answer to the plan request and an answer the extraction
\* fails on both end the call with an error and leave the plan of the agent
\* as it was, the message of the second carrying the diagnostic of the
\* extractor; an answer the extraction succeeds on becomes the plan as it is
C25_PlanSynthesis ==
    /\ [][(PlanAnswered /\ lastResponse' \in EmptyResponses) =>
              /\ pc' = "error"
              /\ error' = "Failed to create an action plan with Google Gemini."
              /\ scrumStory' = scrumStory]_vars
    /\ [][(PlanAnswered /\ lastResponse' \notin EmptyResponses
                /\ ~extractJson(lastResponse').success) =>
              /\ pc' = "error"
              /\ CarriesDiagnostic(error', extractJson(lastResponse').error)
              /\ scrumStory' = scrumStory]_vars
    /\ [][(PlanAnswered /\ lastResponse' \notin EmptyResponses
                /\ extractJson(lastResponse').success) =>
              /\ pc' = "planned"
              /\ error' = error
              /\ scrumStory' = extractJson(lastResponse').data]_vars
    /\ [](pc = "planned" => scrumStory # JNull)
    /\ [](call.op = "createActionPlan" /\ pc # "planned" => scrumStory = JNull)

C25_Witness ==
    /\ pc = "error"
    /\ call.op = "createActionPlan"
    /\ lastPrompt.kind = "story"
    /\ lastResponse = <<"Here", "is", "the", "plan">>
    /\ error = "Failed to parse Scrum story from Gemini: No valid JSON object or array found."
    /\ scrumStory = JNull

\* ------------------------------------------------------------------------
\* Properties of the requirements check
\* ------------------------------------------------------------------------

\* the operations that work on the repository
RepositoryOperations == {"createActionPlan", "develop"}

\* no requirements object, or one without a repository path
WithoutRepositoryPath(req) == req = NoRequirements \/ req.repositoryPath = NULL

\* C26 : createActionPlan and develop called without requirements or without
\* a repository path end with an error at once, before the catalog is listed,
\* the oracle asked, a file read or a file written; past their entry the
\* repository path is always set
C26_RepositoryPathFirst ==
    /\ [][(pc = "idle" /\ call'.op \in RepositoryOperations
                /\ WithoutRepositoryPath(requirements')) =>
              /\ pc' = "error"
              /\ error' # ""
              /\ projectFiles' = projectFiles
              /\ lastPrompt' = lastPrompt
              /\ lastResponse' = lastResponse
              /\ fetchCount' = fetchCount
              /\ repo' = repo]_vars
    /\ [](call.op \in RepositoryOperations /\ WithoutRepositoryPath(requirements) =>
              /\ pc = "error"
              /\ projectFiles = <<>>
              /\ lastPrompt = NoPrompt
              /\ fetchCount = EmptyMap
              /\ codeCalls = 0
              /\ applied = 0
              /\ repo = head)

C26_Witness ==
    /\ pc = "error"
    /\ call.op = "develop"
    /\ requirements.present
    /\ requirements.repositoryPath = NULL
    /\ error = "Requirements (including repository path) not provided."
    /\ projectFiles = <<>>
    /\ lastPrompt = NoPrompt

\* ------------------------------------------------------------------------
\* Properties of commitChanges
\* ------------------------------------------------------------------------

\* C27 : a call that returns has staged and committed exactly when accepted is
\* set, has reset exactly when neither flag is set, and has issued nothing
\* when only keepChanges is set; a call that fails has issued nothing outside
\* its row of the table
C27_CommitDecisionTable ==
    call.op = "commitChanges" =>
        /\ pc = "returned" =>
              /\ call.accepted <=> gitOps = <<"add", "commit">>
              /\ (~call.accepted /\ ~call.keepChanges) <=> gitOps = <<"reset">>
              /\ (~call.accepted /\ call.keepChanges) <=> gitOps = <<>>
        /\ \A i \in 1..Len(gitOps) :
              /\ gitOps[i] \in {"add", "commit"} => call.accepted
              /\ gitOps[i] = "reset" => ~call.accepted /\ ~call.keepChanges
        /\ pc \in {"returned", "error"}

C27_Witness ==
    /\ pc = "returned"
    /\ call.op = "commitChanges"
    /\ call.accepted
    /\ ~call.keepChanges
    /\ gitOps = <<"add", "commit">>
    /\ head = repo
    /\ repo = [p \in {"a.txt", "b.txt"} |-> "new"]

\* ------------------------------------------------------------------------
\* Properties of runTests
\* ------------------------------------------------------------------------

\* the text is one of the parts of the details
InDetails(text, details) == \E i \in 1..Len(details) : details[i] = text

\* C29 : runTests ends with a result and never with an error; the result is
\* passed exactly when the command exited with status 0, and a failed one
\* holds the message of the failure and whatever the command wrote
C29_RunTestsNeverThrows ==
    /\ pc \in {"runTests", "tested"}
    /\ error = ""
    /\ pc = "tested" =>
          /\ testOutcome.passed <=> processExit.code = 0
          /\ ~testOutcome.passed =>
                \A text \in {processExit.message, processExit.stdout, processExit.stderr} \ {""} :
                    InDetails(text, testOutcome.details)
          /\ testOutcome.passed =>
                \A i \in 1..Len(testOutcome.details) :
                    testOutcome.details[i] = processExit.stdout

C29_Witness ==
    /\ pc = "tested"
    /\ processExit.code = 1
    /\ processExit.stdout = "1 failing"
    /\ processExit.stderr = "assert"
    /\ ~testOutcome.passed
    /\ testOutcome.details = <<"Command failed", "1 failing", "assert">>
    /\ error = ""

\* ------------------------------------------------------------------------
\* Properties of the iteration description
\* ------------------------------------------------------------------------

\* the step in which the summary request got an answer
SummaryAnswered == pc = "describe" /\ lastPrompt'.kind = "describe"

\* C30 : a null or empty answer to the summary request makes the placeholder
\* the description of the iteration, and the iteration goes on to write its
\* files with no error; any other answer is the description as it is
C30_PlaceholderDescription ==
    /\ [][(SummaryAnswered /\ lastResponse' \in EmptyResponses) =>
              /\ currentIterationDescription' = <<"No description provided">>
              /\ pc' = "apply"
              /\ error' = ""]_vars
    /\ [][(SummaryAnswered /\ lastResponse' \notin EmptyResponses) =>
              /\ currentIterationDescription' = lastResponse'
              /\ pc' = "apply"
              /\ error' = ""]_vars

C30_Witness ==
    /\ pc = "done"
    /\ applied = 1
    /\ currentIterationDescription = <<"No description provided">>
    /\ lastResponse = NullText
    /\ lastPrompt.kind = "describe"
    /\ error = ""

\* ------------------------------------------------------------------------
\* Properties of the thread of control
\* ------------------------------------------------------------------------

\* C28 : at most one external operation is in flight at any time; an external
\* operation is issued only when none is in flight, and an operation of the
\* agent returns or fails with none left in flight
C28_SingleThreadOfControl ==
    /\ [](Cardinality(inFlight) <= 1)
    /\ [][(inFlight' # inFlight /\ inFlight' # {}) => (inFlight = {})]_vars
    /\ [](pc \in {"idle", "returned", "error"} => inFlight = {})

C28_Witness ==
    /\ pc = "running"
    /\ call.op = "develop"
    /\ rev = "Impl"
    /\ inFlight = { [id |-> 6, kind |-> "read", awaited |-> TRUE] }
    /\ stmt = 7

\* ------------------------------------------------------------------------
\* Properties of a session
\* ------------------------------------------------------------------------

\* C31 : from its call to its end, however it ends, develop leaves the plan it
\* was given and the plan stored in the agent as they were, and every change
\* request it sends carries the plan it was given
C31_PlanIsReadOnly ==
    /\ [][(call'.op = "develop") => (scrumStory' = scrumStory)]_vars
    /\ [][(call.op = "develop") =>
              (call'.op = "develop" /\ call'.scrumStory = call.scrumStory)]_vars
    /\ [](call.op = "develop" /\ lastPrompt.kind = "code" =>
              lastPrompt.scrumStory = StoryText(call.scrumStory))

C31_Witness ==
    /\ pc = "done"
    /\ call.op = "develop"
    /\ rev = "Impl"
    /\ applied = 1
    /\ scrumStory = JObj(<<"title", "plan">>, <<JStr("T"), JArr(<<JStr("s1")>>)>>)
    /\ call.scrumStory = scrumStory
    /\ lastPrompt.scrumStory = NULL
    /\ error = ""

\* C32 : a request of the discovery loop lists the content of every
\* identifier named in the rounds before it : what it gives as already
\* requested is in the context it carries
C32_RequestListsEarlierRounds ==
    (lastPrompt.kind \in {"files", "planFiles"}) =>
        \A i \in 1..Len(lastPrompt.alreadyRequested) :
            lastPrompt.alreadyRequested[i] \in DOMAIN lastPrompt.fileContents

\* ------------------------------------------------------------------------
\* Properties of the application of a ChangeSet
\* ------------------------------------------------------------------------

\* the content an entry of the ChangeSet gives to its path
EntryContent(changes, path) ==
    LET e == Entries(changes)
    IN  e[CHOOSE i \in 1..Len(e) : e[i][1] = path][2].s

\* C33 : the entries of a ChangeSet are written in order and the first write
\* that fails ends the call with an error; the entries written before it have
\* their new content, the failed entry and the ones after it are as they
\* were, and so is every file outside the ChangeSet
C33_NoRollback ==
    [][(pc = "apply") =>
          LET e == Entries(files)
              w == writeOps'
              done == {w[i].path : i \in {j \in 1..Len(w) : w[j].ok}}
          IN  /\ Len(w) <= Len(e)
              /\ \A i \in 1..Len(w) : w[i].path = e[i][1]
              /\ \A i \in 1..Len(w) : ~w[i].ok => (i = Len(w) /\ pc' = "error")
              /\ (pc' # "error") => (Len(w) = Len(e))
              /\ \A p \in done : p \in DOMAIN repo' /\ repo'[p] = EntryContent(files, p)
              /\ \A p \in (DOMAIN repo \cup DOMAIN repo') \ done :
                    p \in DOMAIN repo /\ p \in DOMAIN repo' /\ repo'[p] = repo[p]]_vars

C33_Witness ==
    /\ pc = "error"
    /\ writeOps = << [path |-> "a.txt", ok |-> TRUE], [path |-> "b.txt", ok |-> FALSE] >>
    /\ repo = [p \in {"a.txt"} |-> "c2"]
    /\ head = [p \in {"a.txt"} |-> "old"]
    /\ error = "Error creating or modifying files"

\* C34 : once a call with neither flag set has returned, the working tree is
\* the last commit : the files that were overwritten have their committed
\* content and the files that were created are gone
C34_ResetRestoresLastCommit ==
    (call.op = "commitChanges" /\ ~call.accepted /\ ~call.keepChanges /\ pc = "returned") =>
        repo = head

\* ------------------------------------------------------------------------
\* Properties of the order of the sentinel test and the extraction
\* ------------------------------------------------------------------------

\* the answers that hold the phrase and out of which a list of identifiers
\* can be extracted
SentinelWithList(text) ==
    /\ ContainsPhraseAnyCase(text)
    /\ extractJson(text).success
    /\ IsArray(extractJson(text).data)
    /\ Len(extractJson(text).data.items) > 0

\* C35 : a discovery answer that holds "no more files" and a JSON array of
\* identifiers, or an array with an identifier that holds the phrase, ends the
\* loop in that round; the identifiers it names are not added to the needed
\* files, nothing is read in that round, and the read that follows the loop
\* takes the needed files alone
C35_SentinelBeforeExtraction ==
    /\ [][(pc \in {"discover", "planDiscover"} /\ rounds' = rounds + 1
              /\ SentinelWithList(lastResponse')) =>
            /\ pc' \in {"fetch", "planFetch", "planRequest"}
            /\ neededFiles' = neededFiles
            /\ fetchCount' = fetchCount
            /\ currentFileContents' = currentFileContents
            /\ planningFileContents' = planningFileContents
            /\ lastLog' = lastLog]_vars
    /\ [][(pc \in {"fetch", "planFetch"}) =>
            /\ neededFiles' = neededFiles
            /\ fetchCount' = CountFetches(fetchCount, neededFiles)]_vars

C35_Witness ==
    /\ pc = "request"
    /\ rev = "Impl"
    /\ rounds = 2
    /\ lastResponse = <<"[", "No More Files.txt", "]">>
    /\ neededFiles = <<"a.txt">>
    /\ DOMAIN fetchCount = {"a.txt"}
    /\ DOMAIN currentFileContents = {"a.txt"}

\* ------------------------------------------------------------------------
\* Properties of the loop of CodeDeveloperImpl.develop
\* ------------------------------------------------------------------------

\* C36 : in the later revision develop never runs the tests and writes at
\* most one ChangeSet; once a change response has parsed the loop is not
\* entered again, and an iteration after the first starts only when the
\* change response of the one before did not parse
C36_OneChangeSetNoTests ==
    /\ [](rev = "Impl" => (pc # "test" /\ testsPassed = 0 /\ testsFailed = 0 /\ applied <= 1))
    /\ [][(rev = "Impl" /\ pc \in {"describe", "apply"}) =>
            pc' \in {"apply", "exit", "error"}]_vars
    /\ [][(rev = "Impl" /\ pc = "exit") => (pc' = "done")]_vars
    /\ [][(rev = "Impl" /\ applied' # applied) => (applied = 0 /\ pc' = "exit")]_vars
    /\ [][(rev = "Impl" /\ pc = "loop" /\ iterationCount' = iterationCount + 1
              /\ iterationCount >= 1) =>
            /\ ~extractJson(lastResponse).success
            /\ lastLog = "invalidJson"
            /\ applied = 0
            /\ iterationSteps = <<>>]_vars

C36_Witness ==
    /\ rev = "Impl"
    /\ pc = "done"
    /\ iterationCount = 2
    /\ codeCalls = 2
    /\ applied = 1
    /\ testsPassed = 0
    /\ testsFailed = 0
    /\ iterationSteps = <<"describe", "apply">>
    /\ lastLog = "invalidJson"

\* ------------------------------------------------------------------------
\* Properties of the context of a CodeDeveloperImpl object
\* ------------------------------------------------------------------------

\* every identifier of the catalog has an entry in the context
CatalogCovered == \A i \in 1..Len(projectFiles) : projectFiles[i] \in DOMAIN currentFileContents

\* C37 : the context of the later revision is changed by the read after the
\* discovery loop alone, which adds to it and overwrites entries of it, so it
\* is carried from iteration to iteration and from call to call; an
\* iteration that starts with every catalog identifier in the context, an
\* empty catalog included, makes no discovery call, reads nothing, and sends
\* the change request with the context it started with
C37_ContextCarried ==
    /\ [][(currentFileContents' # currentFileContents) =>
            /\ pc = "fetch"
            /\ rounds >= 1
            /\ \A p \in DOMAIN currentFileContents : p \in DOMAIN currentFileContents']_vars
    /\ [][(pc \in {"done", "error"} /\ pc' = "loop") =>
            (currentFileContents' = currentFileContents)]_vars
    /\ [][(pc = "loop" /\ iterationCount' = iterationCount + 1) =>
            /\ CatalogCovered => (pc' = "fetch")
            /\ ~CatalogCovered => (pc' = "discover")
            /\ rounds' = 0]_vars
    /\ [][(rounds' # rounds /\ rounds' # 0) => (pc = "discover" /\ ~CatalogCovered)]_vars
    /\ [][(pc = "fetch" /\ rounds = 0) =>
            /\ pc' = "request"
            /\ fetchCount' = EmptyMap
            /\ lastPrompt' = lastPrompt]_vars
    /\ [][(pc = "request" /\ rounds = 0 /\ codeCalls' = codeCalls + 1) =>
            /\ lastPrompt'.kind = "code"
            /\ lastPrompt'.fileContents = currentFileContents
            /\ currentFileContents' = currentFileContents]_vars

C37_Witness ==
    /\ pc = "describe"
    /\ rounds = 0
    /\ iterationCount = 1
    /\ codeCalls = 1
    /\ projectFiles = <<"a.txt">>
    /\ repo = [p \in {"a.txt"} |-> "c1"]
    /\ currentFileContents = [p \in {"a.txt"} |-> "old"]
    /\ lastPrompt.kind = "code"
    /\ lastPrompt.fileContents = currentFileContents

\* ------------------------------------------------------------------------
\* Properties of the order of the stages of a session
\* ------------------------------------------------------------------------

\* C38 : develop throws unless a call of createActionPlan has returned,
\* createActionPlan throws unless a call of collectRequirements that was given
\* a repository path has returned, and reviewAndCommit with no repository
\* path stored returns without a version-control operation
C38_StageOrdering ==
    /\ [][(call'.op = "develop"
              /\ ~\E c \in agent.completed : c.op = "createActionPlan") =>
            (pc' = "error")]_vars
    /\ [][(call'.op = "createActionPlan"
              /\ ~\E c \in agent.completed :
                    c.op = "collectRequirements" /\ c.repositoryPath # NULL) =>
            (pc' = "error")]_vars
    /\ [][(call'.op = "reviewAndCommit" /\ call'.repositoryPath = NULL) =>
            /\ pc' = "returned"
            /\ gitOps' = <<>>
            /\ repo' = repo
            /\ head' = head]_vars

====
